---- MODULE Spec2Model ----
(***************************************************************************)
(* silicon-alloy: the bottle record store (core/shared/src/lib.rs), the    *)
(* recipe engine and the RPC dispatcher of the daemon                      *)
(* (core/daemon/src/service.rs, core/daemon/src/main.rs).                  *)
(*                                                                         *)
(* The daemon spawns one task per accepted connection on a multi-threaded  *)
(* runtime; every filesystem call and every process launch is awaited, so  *)
(* the tasks interleave at the granularity of single filesystem calls.     *)
(* Each action below is one such call (with the synchronous code around    *)
(* it) of one connection's request handler.                                *)
(*                                                                         *)
(* The filesystem under <dataRoot>/bottles is modelled by                  *)
(*   dirs      the ids whose record directory <root>/<id> exists           *)
(*   prefixes  the ids whose <root>/<id>/prefix directory exists           *)
(*   meta      per id, the state of <root>/<id>/bottle.json                *)
(*   files     the paths of the files copied by Copy steps                 *)
(* known and removed record which ids a create has returned and for which  *)
(* ids a remove has returned success; hist records what the running        *)
(* handler of a connection has done so far.  runtimes is State::runtimes   *)
(* and recipe_dir State::recipe_dir; host is the machine the daemon runs   *)
(* on (its runtime root and executables); born records, per id, the record *)
(* create returned; conn says whether a connection's client is still       *)
(* there.                                                                  *)
(***************************************************************************)
EXTENDS Integers, Sequences, FiniteSets, TLC

VARIABLES dirs, prefixes, meta, files, nextId, known, removed, ops,
          pc, req, rec, idx, fd, resp, hist, scan, runtimes, clean,
          host, recipe_dir, born, conn

vars == <<dirs, prefixes, meta, files, nextId, known, removed, ops,
          pc, req, rec, idx, fd, resp, hist, scan, runtimes, clean,
          host, recipe_dir, born, conn>>

fsvars == <<dirs, prefixes, meta, files>>

(***************************************************************************)
(* Bounds of the model.                                                    *)
(***************************************************************************)
\* number of bottles BottleStore::create may allocate in one run
MaxIds == 2
\* number of requests the clients send in one run
MaxOps == 3

\* the accepted connections (one spawned task each)
Conns == {"c1", "c2"}

\* ids Uuid::new_v4 hands out, in order of allocation; BogusId is a uuid a
\* client sends that no create ever returned
Ids == 1..MaxIds
BogusId == 0
AllIds == Ids \cup {BogusId}

\* a name is the sequence of its characters
MyGame == <<"M", "y", " ", "G", "a", "m", "e">>
Names == {MyGame, <<"b">>}
Timestamps == {"t0"}

WineDefaultVersion == "WINE_DEFAULT_VERSION"
Keys == {"A", "B", WineDefaultVersion}

(***************************************************************************)
(* Data model (core/shared/src/lib.rs).                                    *)
(***************************************************************************)
\* Option<String> and Option<PathBuf>
None == [some |-> FALSE, val |-> ""]
Some(v) == [some |-> TRUE, val |-> v]
NoPath == [some |-> FALSE, val |-> <<>>]

\* a path is the sequence of its components below "/"; <<>> is "/" itself
\* the runtime root, State::runtime_dir
RuntimeDir == <<"rt">>

\* a RuntimeDescriptor as discover_runtimes builds it from the directory
\* wine-<arch>-<version> (notes left out)
Descriptor(arch, channel, version) ==
    [channel |-> channel,
     label |-> "wine " \o arch \o " " \o version,
     version |-> version,
     wine64_path |-> RuntimeDir \o <<"wine-" \o arch \o "-" \o version, "bin", "wine64">>]

Rossetta7 == Descriptor("x86_64", "rossetta", "7.0")
Rossetta9 == Descriptor("x86_64", "rossetta", "9.0")
Arm64 == Descriptor("arm64", "native-arm64", "8.0")

\* the descriptor DaemonService::new appends for SILICON_ALLOY_ARM64_WINE64
External ==
    [channel |-> "native-arm64", label |-> "wine arm64 (external)",
     version |-> "experimental", wine64_path |-> <<"opt", "wine64">>]

\* RuntimeDescriptor::into_wine_runtime (channel: Some(channel))
into_wine_runtime(descriptor) ==
    [label |-> descriptor.label, wine64_path |-> descriptor.wine64_path,
     version |-> descriptor.version, channel |-> descriptor.channel]

GoodWine == into_wine_runtime(Rossetta7)
RootWine == [label |-> "custom wine 7.0", wine64_path |-> <<>>,
             version |-> "7.0", channel |-> "custom"]
WineRuntime == {GoodWine, RootWine}

BottleRecord(id, name, created_at, wine_runtime, environment) ==
    [id |-> id, name |-> name, created_at |-> created_at,
     wine_runtime |-> wine_runtime, environment |-> environment]

NullRecord == BottleRecord(BogusId, <<>>, "", GoodWine, <<>>)

\* the content of a bottle.json: absent, created but still empty, the JSON
\* of a record, or bytes that do not parse
NoFile == [kind |-> "none", rec |-> NullRecord]
EmptyFile == [kind |-> "empty", rec |-> NullRecord]
Garbage == [kind |-> "garbage", rec |-> NullRecord]
Json(r) == [kind |-> "json", rec |-> r]

\* anyhow::Result<BottleRecord>
Ok(r) == [ok |-> TRUE, err |-> "", rec |-> r]
Err(e) == [ok |-> FALSE, err |-> e, rec |-> NullRecord]

(***************************************************************************)
(* Paths.  A path is the sequence of its components; an absolute path      *)
(* starts with the component "/".                                          *)
(***************************************************************************)
IsAbsolute(p) == Len(p) > 0 /\ p[1] = "/"

\* PathBuf::join: an absolute argument replaces the base
Join(base, p) == IF IsAbsolute(p) THEN p ELSE base \o p

IsPrefixOf(a, p) == Len(a) <= Len(p) /\ SubSeq(p, 1, Len(a)) = a

BottleDir(id) == <<"/", "bottles", ToString(id)>>

bottle_prefix(id) == BottleDir(id) \o <<"prefix">>

\* the path as the string a process is given it as
RECURSIVE display(_)
display(p) ==
    IF p = <<>> THEN ""
    ELSE IF Len(p) = 1 THEN p[1]
    ELSE IF p[1] = "/" THEN "/" \o display(Tail(p))
    ELSE p[1] \o "/" \o display(Tail(p))

\* Path::parent of the runtime's main executable, then join("winecfg");
\* "/" has no parent
HasParent(p) == Len(p) > 0

(***************************************************************************)
(* Names.  The characters in byte order, as str::cmp compares them.        *)
(***************************************************************************)
Digits == <<"0", "1", "2", "3", "4", "5", "6", "7", "8", "9">>
UpperCase == <<"A", "B", "C", "D", "E", "F", "G", "H", "I", "J", "K", "L", "M",
               "N", "O", "P", "Q", "R", "S", "T", "U", "V", "W", "X", "Y", "Z">>
LowerCase == <<"a", "b", "c", "d", "e", "f", "g", "h", "i", "j", "k", "l", "m",
               "n", "o", "p", "q", "r", "s", "t", "u", "v", "w", "x", "y", "z">>
Ascii == <<" ", "!", "-", ".">> \o Digits \o UpperCase \o <<"_">> \o LowerCase

IndexOf(seq, x) == CHOOSE i \in DOMAIN seq : seq[i] = x
Among(seq, x) == \E i \in DOMAIN seq : seq[i] = x

\* the rank of a character in byte order
CharCode(ch) == IndexOf(Ascii, ch)

\* a.cmp(&b) == Ordering::Less for two strings
NameLess(a, b) ==
    \E i \in 1..Len(b) :
        /\ \A j \in 1..(i - 1) : j <= Len(a) /\ a[j] = b[j]
        /\ i > Len(a) \/ CharCode(a[i]) < CharCode(b[i])

\* Vec::sort_by(|a, b| a.name.cmp(&b.name)), a stable sort: r goes behind
\* every record whose name is not greater than its own
RECURSIVE Insert(_, _)
Insert(sorted, r) ==
    IF sorted = <<>> THEN <<r>>
    ELSE IF NameLess(r.name, Head(sorted).name) THEN <<r>> \o sorted
    ELSE <<Head(sorted)>> \o Insert(Tail(sorted), r)

RECURSIVE SortByName(_)
SortByName(bottles) ==
    IF bottles = <<>> THEN <<>>
    ELSE Insert(SortByName(SubSeq(bottles, 1, Len(bottles) - 1)),
                bottles[Len(bottles)])

\* char::to_ascii_lowercase
to_ascii_lowercase(ch) ==
    IF Among(UpperCase, ch) THEN LowerCase[IndexOf(UpperCase, ch)] ELSE ch

\* str::trim_matches: the characters of set are cut off both ends
RECURSIVE TrimStart(_, _)
TrimStart(s, set) ==
    IF s # <<>> /\ Head(s) \in set THEN TrimStart(Tail(s), set) ELSE s

RECURSIVE TrimEnd(_, _)
TrimEnd(s, set) ==
    IF s # <<>> /\ s[Len(s)] \in set
    THEN TrimEnd(SubSeq(s, 1, Len(s) - 1), set) ELSE s

trim_matches(s, set) == TrimEnd(TrimStart(s, set), set)

\* the loop of BottleName::sanitize over the characters
RECURSIVE Clean(_)
Clean(s) ==
    IF s = <<>> THEN <<>>
    ELSE LET ch == Head(s) IN
         (CASE Among(LowerCase, ch) \/ Among(UpperCase, ch) \/ Among(Digits, ch)
                  -> <<to_ascii_lowercase(ch)>>
            [] ch \in {"-", "_"} -> <<ch>>
            [] ch = " " -> <<"-">>
            [] OTHER -> <<>>) \o Clean(Tail(s))

\* mutant: the dashes and underscores at the ends of the slug stay
sanitize_untrimmed(input) ==
    LET trimmed == trim_matches(input, {" "})
        slug == Clean(trimmed)
    IN  IF trimmed = <<>> \/ slug = <<>>
        THEN [some |-> FALSE, val |-> <<>>]
        ELSE [some |-> TRUE, val |-> slug]

\* BottleName::sanitize (core/alloy-core/src/bottle.rs): the slug of a
\* name, or None
sanitize(input) ==
    LET trimmed == trim_matches(input, {" "})
        slug == trim_matches(Clean(trimmed), {"-", "_"})
    IN  IF trimmed = <<>> \/ slug = <<>>
        THEN [some |-> FALSE, val |-> <<>>]
        ELSE [some |-> TRUE, val |-> slug]

\* <BottleName as FromStr>::from_str: Ok(BottleName(slug)), or the error
\* that asks for another name
from_str(value) ==
    IF sanitize(value).some
    THEN [ok |-> TRUE, err |-> "", name |-> sanitize(value).val]
    ELSE [ok |-> FALSE, err |-> "PickAnotherName", name |-> <<>>]

\* the names that are parsed: every string of at most MaxName characters
\* of NameChars, and the two names of the crate's tests
MaxName == 3
NameChars == {"A", "b", "7", " ", "-", "_", "!"}
MyFancyApp == <<"M", "y", " ", "F", "a", "n", "c", "y", " ", "A", "p", "p">>
NameInputs ==
    UNION {[1..n -> NameChars] : n \in 0..MaxName}
        \cup {MyFancyApp, <<"!", "!", "!">>}

(***************************************************************************)
(* Runtime discovery (core/shared/src/lib.rs, discover_runtimes).  The     *)
(* name of a directory entry is the sequence of its characters.            *)
(***************************************************************************)
\* String::from of a sequence of characters
RECURSIVE Str(_)
Str(chars) == IF chars = <<>> THEN "" ELSE Head(chars) \o Str(Tail(chars))

\* str::split(sep): the pieces between the separators
RECURSIVE split(_, _)
split(s, sep) ==
    IF ~Among(s, sep) THEN <<s>>
    ELSE LET i == CHOOSE k \in DOMAIN s :
                      s[k] = sep /\ \A j \in 1..(k - 1) : s[j] # sep
         IN  <<SubSeq(s, 1, i - 1)>> \o split(SubSeq(s, i + 1, Len(s)), sep)

\* [&str]::join(sep)
RECURSIVE join(_, _)
join(parts, sep) ==
    IF parts = <<>> THEN <<>>
    ELSE IF Len(parts) = 1 THEN parts[1]
    ELSE parts[1] \o <<sep>> \o join(Tail(parts), sep)

Wine == <<"w", "i", "n", "e">>
X86_64 == <<"x", "8", "6", "_", "6", "4">>
Arm64Arch == <<"a", "r", "m", "6", "4">>

\* an entry of the runtime root as read_dir yields it: its file name
\* (utf8: does OsString::into_string succeed), whether file_type is a
\* directory, and the executables that exist in <entry>/bin
DirEntry(name, is_dir, bin) ==
    [name |-> name, utf8 |-> TRUE, is_dir |-> is_dir, bin |-> bin]

\* the channel of an architecture
channel_of(arch) ==
    CASE arch = X86_64    -> "rossetta"
      [] arch = Arm64Arch -> "native-arm64"
      [] OTHER            -> "custom-" \o Str(arch)

\* the body of the loop over the entries: the descriptor pushed for an
\* entry, or nothing when the entry is skipped; key is the label's
\* characters, which the sort compares
Discovered(root, entry) ==
    LET parts == split(entry.name, "-")
        arch == parts[2]
        version == join(SubSeq(parts, 3, Len(parts)), "-")
    IN  IF ~entry.is_dir \/ ~entry.utf8 THEN <<>>
        ELSE IF Len(parts) < 3 \/ parts[1] # Wine THEN <<>>
        ELSE IF "wine64" \notin entry.bin THEN <<>>
        ELSE <<[key |-> Wine \o <<" ">> \o arch \o <<" ">> \o version,
                descriptor |->
                    [channel |-> channel_of(arch),
                     label |-> "wine " \o Str(arch) \o " " \o Str(version),
                     version |-> Str(version),
                     wine64_path |-> root \o <<Str(entry.name), "bin", "wine64">>]]>>

RECURSIVE Pushed(_, _)
Pushed(root, entries) ==
    IF entries = <<>> THEN <<>>
    ELSE Discovered(root, Head(entries)) \o Pushed(root, Tail(entries))

\* Vec::sort_by(|a, b| a.label.cmp(&b.label)), a stable sort
RECURSIVE InsertByLabel(_, _)
InsertByLabel(sorted, r) ==
    IF sorted = <<>> THEN <<r>>
    ELSE IF NameLess(r.key, Head(sorted).key) THEN <<r>> \o sorted
    ELSE <<Head(sorted)>> \o InsertByLabel(Tail(sorted), r)

RECURSIVE SortByLabel(_)
SortByLabel(list) ==
    IF list = <<>> THEN <<>>
    ELSE InsertByLabel(SortByLabel(SubSeq(list, 1, Len(list) - 1)),
                       list[Len(list)])

\* mutant: an entry without bin/wine64 is listed as well
discover_runtimes_unchecked(root, exists, entries) ==
    IF ~exists THEN <<>>
    ELSE LET found == SortByLabel(
                          Pushed(root, [i \in DOMAIN entries |->
                                           [entries[i] EXCEPT !.bin = {"wine64"}]]))
         IN  [i \in DOMAIN found |-> found[i].descriptor]

\* discover_runtimes(root): exists is root.exists(), entries are the
\* entries of the root in the order read_dir yields them
discover_runtimes(root, exists, entries) ==
    IF ~exists THEN <<>>
    ELSE LET found == SortByLabel(Pushed(root, entries))
         IN  [i \in DOMAIN found |-> found[i].descriptor]

(***************************************************************************)
(* Recipes (core/shared/src/recipes.rs).                                   *)
(***************************************************************************)
NoVersion == "none"

Run(path) == [type |-> "run", path |-> path, version |-> NoVersion,
              variables |-> <<>>, to |-> <<>>]
WaitForExit == [type |-> "wait_for_exit", path |-> <<>>, version |-> NoVersion,
                variables |-> <<>>, to |-> <<>>]
WineCfg(version) == [type |-> "wine_cfg", path |-> <<>>, version |-> version,
                     variables |-> <<>>, to |-> <<>>]
Env(variables) == [type |-> "env", path |-> <<>>, version |-> NoVersion,
                   variables |-> variables, to |-> <<>>]
Copy(from, to) == [type |-> "copy", path |-> from, version |-> NoVersion,
                   variables |-> <<>>, to |-> to]

RecipeRoot == <<"/", "recipes">>

\* directories SILICON_ALLOY_RECIPES can name instead: one with a manifest
\* of its own, and one that does not exist
LabRoot == <<"/", "lab">>
GoneRoot == <<"/", "gone">>
\* and one whose recipes copy: from an absolute source, to an absolute
\* destination, and from a source that does not exist
DepotRoot == <<"/", "depot">>
\* and one that holds a manifest that loads, a file that is no manifest and
\* a manifest that does not load
MixedRoot == <<"/", "mixed">>

\* Recipe::resource
resource(base_dir, relative) ==
    IF IsAbsolute(relative) THEN relative
    ELSE base_dir \o <<"resources">> \o relative

\* the resource files that exist below the recipe directories
HostFiles ==
    {root \o <<"resources", file>> :
        root \in {RecipeRoot, LabRoot, DepotRoot}, file \in {"lib.dll", "setup.exe"}}

\* a step of a manifest as the YAML has it: a mapping in which each of the
\* keys run (a string or a mapping), wait_for_exit, winecfg, env and copy
\* is there or not; RawStep is the empty mapping
NoRun == [kind |-> "absent", text |-> <<>>, command |-> NoPath, file |-> NoPath]
RawStep ==
    [run |-> NoRun, wait_for_exit |-> "absent", winecfg |-> "absent",
     env |-> [present |-> FALSE, map |-> <<>>],
     copy |-> [present |-> FALSE, from |-> <<>>, to |-> <<>>]]

\* run: <string>
RunString(run) ==
    [RawStep EXCEPT !.run = [NoRun EXCEPT !.kind = "string", !.text = run]]
\* run: {command: .., file: ..} (RunParams; path is an alias of file)
RunObject(command, file) ==
    [RawStep EXCEPT !.run = [NoRun EXCEPT !.kind = "object",
                                          !.command = command, !.file = file]]
\* wait_for_exit: <bool>
Wait(wait_for_exit) ==
    [RawStep EXCEPT !.wait_for_exit = IF wait_for_exit THEN "true" ELSE "false"]
\* winecfg: {version: ..} (NoVersion: no version key)
RawWineCfg(version) == [RawStep EXCEPT !.winecfg = version]
\* env: {key: value, ..}, the pairs in the order of the file
RawEnv(map) == [RawStep EXCEPT !.env = [present |-> TRUE, map |-> map]]
\* copy: {from: .., to: ..}
RawCopy(from, to) ==
    [RawStep EXCEPT !.copy = [present |-> TRUE, from |-> from, to |-> to]]

\* #[serde(untagged)] enum RecipeStepRaw: the first variant, in the order
\* of declaration, whose key the mapping holds; other keys are ignored
RecipeStepRaw(step) ==
    IF step.run.kind = "string" THEN "RunString"
    ELSE IF step.run.kind = "object" THEN "RunObject"
    ELSE IF step.wait_for_exit # "absent" THEN "Wait"
    ELSE IF step.winecfg # "absent" THEN "WineCfg"
    ELSE IF step.env.present THEN "Env"
    ELSE IF step.copy.present THEN "Copy"
    ELSE "invalid"

\* the keys of the overrides in byte order, as a BTreeMap iterates
KeyOrder == <<"A", "B", "WINEPREFIX", WineDefaultVersion>>

\* BTreeMap::into_iter().collect(): the pairs sorted by key
RECURSIVE Sorted(_, _)
Sorted(map, keys) ==
    IF keys = <<>> THEN <<>>
    ELSE SelectSeq(map, LAMBDA p : p[1] = Head(keys)) \o Sorted(map, Tail(keys))

\* Result<RecipeStep>
StepOk(step) == [ok |-> TRUE, err |-> "", step |-> step]
StepErr(err) == [ok |-> FALSE, err |-> err, step |-> WaitForExit]

\* mutant: a step that does not normalize counts as a wait step
normalize_lenient(step) ==
    LET variant == RecipeStepRaw(step) IN
    CASE variant = "RunString" -> StepOk(Run(step.run.text))
      [] variant = "RunObject" ->
            IF step.run.command.some THEN StepOk(Run(step.run.command.val))
            ELSE IF step.run.file.some THEN StepOk(Run(step.run.file.val))
            ELSE StepOk(WaitForExit)
      [] variant = "Wait" -> StepOk(WaitForExit)
      [] variant = "WineCfg" -> StepOk(WineCfg(step.winecfg))
      [] variant = "Env" -> StepOk(Env(Sorted(step.env.map, KeyOrder)))
      [] variant = "Copy" -> StepOk(Copy(step.copy.from, step.copy.to))
      [] OTHER -> StepErr("Yaml")

\* RecipeStepRaw::normalize
normalize(step) ==
    LET variant == RecipeStepRaw(step) IN
    CASE variant = "RunString" -> StepOk(Run(step.run.text))
      [] variant = "RunObject" ->
            IF step.run.command.some THEN StepOk(Run(step.run.command.val))
            ELSE IF step.run.file.some THEN StepOk(Run(step.run.file.val))
            ELSE StepErr("MissingCommand")
      [] variant = "Wait" ->
            IF step.wait_for_exit = "true" THEN StepOk(WaitForExit)
            ELSE StepErr("WaitMustBeTrue")
      [] variant = "WineCfg" -> StepOk(WineCfg(step.winecfg))
      [] variant = "Env" -> StepOk(Env(Sorted(step.env.map, KeyOrder)))
      [] variant = "Copy" -> StepOk(Copy(step.copy.from, step.copy.to))
      [] OTHER -> StepErr("Yaml")

\* an entry of a recipe directory: yaml says whether it is a *.yaml file
\* or a directory with a recipe.yaml, and then id, name and steps are what
\* the manifest holds
Manifest(id, name, steps) ==
    [yaml |-> TRUE, id |-> id, name |-> name, steps |-> steps]

\* Result<Recipe>
NoRecipe == [id |-> "", name |-> <<>>, steps |-> <<>>]
Loaded(recipe) == [ok |-> TRUE, err |-> "", recipe |-> recipe]
LoadErr(err) == [ok |-> FALSE, err |-> err, recipe |-> NoRecipe]

\* load_recipe: serde_yaml::from_str, which fails when a step is of no
\* variant, then RecipeManifestRaw::normalize, which collects the steps and
\* returns the first error
load_recipe(file) ==
    LET steps == [i \in DOMAIN file.steps |-> normalize(file.steps[i])]
        failed == {i \in DOMAIN steps : ~steps[i].ok}
    IN  IF \E i \in DOMAIN file.steps : RecipeStepRaw(file.steps[i]) = "invalid"
        THEN LoadErr("Yaml")
        ELSE IF failed # {}
        THEN LoadErr(steps[CHOOSE i \in failed : \A j \in failed : i <= j].err)
        ELSE Loaded([id |-> file.id, name |-> file.name,
                     steps |-> [i \in DOMAIN steps |-> steps[i].step]])

\* load_all(dir): every manifest of the directory, sorted by name; one
\* manifest that does not load fails the call
load_all(exists, entries) ==
    IF ~exists THEN [ok |-> TRUE, err |-> "", recipes |-> <<>>]
    ELSE LET manifests == SelectSeq(entries, LAMBDA e : e.yaml)
             loaded == [i \in DOMAIN manifests |-> load_recipe(manifests[i])]
             failed == {i \in DOMAIN loaded : ~loaded[i].ok}
         IN  IF failed # {}
             THEN [ok |-> FALSE, recipes |-> <<>>,
                   err |-> loaded[CHOOSE i \in failed : \A j \in failed : i <= j].err]
             ELSE [ok |-> TRUE, err |-> "",
                   recipes |-> SortByName([i \in DOMAIN loaded |-> loaded[i].recipe])]

\* the manifests of the default recipe directory, in the order read_dir
\* yields them
Catalog ==
    <<Manifest("tune", <<"T", "u", "n", "e">>,
               <<RawEnv(<<<<"B", "1">>, <<"A", "1">>>>), RawWineCfg("1"),
                 RawEnv(<<<<"A", "2">>>>), RawWineCfg("2")>>),
      Manifest("install", <<"I", "n", "s", "t", "a", "l", "l">>,
               <<RawCopy(<<"lib.dll">>, <<"drive_c", "lib.dll">>),
                 RawEnv(<<<<"B", "2">>>>),
                 RawCopy(<<"gone.dll">>, <<"drive_c", "gone.dll">>)>>),
      Manifest("patch", <<"P", "a", "t", "c", "h">>,
               <<RawCopy(<<"lib.dll">>, <<"lib.dll">>)>>),
      Manifest("game", <<"G", "a", "m", "e">>,
               <<RunString(<<"setup.exe">>), Wait(TRUE), RawWineCfg(NoVersion),
                 RawEnv(<<<<WineDefaultVersion, "2">>>>)>>)>>

\* the manifest of the directory LabRoot: it sets WINEPREFIX, launches,
\* configures and copies
Lab ==
    <<Manifest("hijack", <<"H", "i", "j", "a", "c", "k">>,
               <<RawEnv(<<<<"WINEPREFIX", "/elsewhere">>>>),
                 RunObject(NoPath, Some(<<"setup.exe">>)), Wait(TRUE),
                 RawWineCfg("1"),
                 RawCopy(<<"lib.dll">>, <<"drive_c", "lib.dll">>)>>)>>

\* the manifests of the directory DepotRoot
Depot ==
    <<Manifest("place", <<"P", "l", "a", "c", "e">>,
               <<RawCopy(<<"/", "lab", "resources", "lib.dll">>,
                         <<"drive_c", "sys", "lib.dll">>),
                 RawCopy(<<"setup.exe">>, <<"setup.exe">>)>>),
      Manifest("stray", <<"S", "t", "r", "a", "y">>,
               <<RawCopy(<<"lib.dll">>, <<"/", "tmp", "lib.dll">>)>>),
      Manifest("miss", <<"M", "i", "s", "s">>,
               <<RawCopy(<<"/", "nowhere", "lib.dll">>, <<"drive_c", "lib.dll">>)>>)>>

\* the entries of the directory MixedRoot
Mixed ==
    <<Manifest("good", <<"G", "o", "o", "d">>, <<RawEnv(<<<<"A", "1">>>>)>>),
      [Manifest("notes", <<"N", "o", "t", "e", "s">>, <<Wait(FALSE)>>)
          EXCEPT !.yaml = FALSE],
      Manifest("bad", <<"B", "a", "d">>,
               <<RawEnv(<<<<"A", "1">>>>), Wait(FALSE)>>)>>

\* the steps the manifests of the directories /try/<i>/<j> are made of
TrySteps ==
    <<RunString(<<"setup.exe">>),
      RunObject(Some(<<"a.exe">>), Some(<<"b.exe">>)),
      RunObject(NoPath, Some(<<"b.exe">>)),
      RunObject(NoPath, NoPath),
      Wait(TRUE),
      Wait(FALSE),
      RawWineCfg("1"),
      RawEnv(<<<<"B", "1">>, <<"A", "1">>>>),
      RawCopy(<<"lib.dll">>, <<"lib.dll">>),
      RawStep,
      [RunString(<<"setup.exe">>) EXCEPT !.wait_for_exit = "false"]>>

\* /try/<i>/<j> holds one manifest, try, of the steps i and j of TrySteps
\* (0: no step)
TryIndex == 0..Len(TrySteps)
TryRoot(i, j) == <<"/", "try", ToString(i), ToString(j)>>
TryDirs == {TryRoot(i, j) : i \in TryIndex, j \in TryIndex}
TryAt(i) == IF i = 0 THEN <<>> ELSE <<TrySteps[i]>>

RecipeDirs == {RecipeRoot, LabRoot, GoneRoot, DepotRoot, MixedRoot} \cup TryDirs

\* fs::read_dir(dir): the entries of a recipe directory
ReadDir(dir) ==
    IF dir = RecipeRoot THEN Catalog
    ELSE IF dir = LabRoot THEN Lab
    ELSE IF dir = GoneRoot THEN <<>>
    ELSE IF dir = DepotRoot THEN Depot
    ELSE IF dir = MixedRoot THEN Mixed
    ELSE LET at == CHOOSE ij \in TryIndex \X TryIndex : TryRoot(ij[1], ij[2]) = dir
         IN  <<Manifest("try", <<"T", "r", "y">>, TryAt(at[1]) \o TryAt(at[2]))>>

\* the ids of the manifests of a directory, and an id none of them has
ManifestIds(dir) == {ReadDir(dir)[i].id : i \in DOMAIN ReadDir(dir)}
IdsAt == [dir \in RecipeDirs |-> ManifestIds(dir)]
RecipeIds == IdsAt[RecipeRoot]
AllRecipeIds == {"nope", ""} \cup UNION {ManifestIds(dir) : dir \in RecipeDirs}

\* Result<Recipe> of find_recipe
NotFound == [ok |-> FALSE, err |-> "NotFound", steps |-> <<>>]

\* find_recipe(dir, id) for every directory and id: load_all(dir)?, then
\* the first recipe with the id
Found ==
    [dir \in RecipeDirs |->
        LET all == load_all(dir # GoneRoot, ReadDir(dir)) IN
        [recipe_id \in AllRecipeIds |->
            IF ~all.ok THEN [NotFound EXCEPT !.err = all.err]
            ELSE LET found == SelectSeq(all.recipes, LAMBDA r : r.id = recipe_id)
                 IN  IF found = <<>> THEN NotFound
                     ELSE [ok |-> TRUE, err |-> "", steps |-> found[1].steps]]]

find_recipe(dir, recipe_id) == Found[dir][recipe_id]

(***************************************************************************)
(* BottleStore::record: reads and parses <root>/<id>/bottle.json.          *)
(***************************************************************************)
ReadRecord(m, id) ==
    CASE m[id].kind = "none" -> Err("NotFound")
      [] m[id].kind = "json" -> Ok(m[id].rec)
      [] OTHER               -> Err("Parse")

record(id) == ReadRecord(meta, id)

(***************************************************************************)
(* The environment list of a record, as apply_recipe changes it.           *)
(***************************************************************************)
\* Vec::retain(|(existing, _)| existing != key)
Retain(env, key) == SelectSeq(env, LAMBDA p : p[1] # key)

\* mutant: the pair is pushed and the old entry of the key stays
EnvSetPushOnly(env, key, value) == Append(env, <<key, value>>)

\* one (key, value) of an Env step: retain, then push
EnvSet(env, key, value) == Append(Retain(env, key), <<key, value>>)

\* RecipeStep::Env: the loop over the step's variables
RECURSIVE EnvStep(_, _)
EnvStep(env, variables) ==
    IF variables = <<>> THEN env
    ELSE EnvStep(EnvSet(env, variables[1][1], variables[1][2]), Tail(variables))

\* RecipeStep::WineCfg: the push of WINE_DEFAULT_VERSION
WineCfgStep(env, version) ==
    IF version # NoVersion THEN Append(env, <<WineDefaultVersion, version>>)
    ELSE env

(***************************************************************************)
(* External processes (run_wine_command).  What the launcher can answer:   *)
(* the spawn fails, or the process exits with a code, or dies of a signal. *)
(***************************************************************************)
Outcomes == {"spawn_error", "exit_0", "exit_1", "signal"}

\* ExitStatus::success and ExitStatus::code
success(outcome) == outcome = "exit_0"
code(outcome) ==
    CASE outcome = "exit_0" -> "0"
      [] outcome = "exit_1" -> "1"
      [] OTHER              -> "null"

\* the variables Command::env has set when the process is spawned, on top
\* of the daemon's own: WINEPREFIX, then the entries of the record's
\* environment, then extra_env; a later value of a key replaces an earlier
command_env(prefix, environment, extra_env) ==
    LET all == <<<<"WINEPREFIX", display(prefix)>>>> \o environment \o extra_env
    IN  {all[i] : i \in {i \in DOMAIN all :
                            \A j \in DOMAIN all : j > i => all[j][1] # all[i][1]}}

\* mutant: a non-zero exit is an error, as for a failed spawn
run_wine_command_strict(id, outcome) ==
    IF id \notin prefixes \/ outcome = "spawn_error"
    THEN [ok |-> FALSE, status |-> "spawn_error"]
    ELSE [ok |-> success(outcome), status |-> outcome]

\* run_wine_command: cmd.status().await? fails only when the process cannot
\* be spawned (the working directory, the bottle's prefix, must exist); a
\* non-zero exit is logged and returned as Ok(status)
run_wine_command(id, outcome) ==
    IF id \notin prefixes \/ outcome = "spawn_error"
    THEN [ok |-> FALSE, status |-> "spawn_error"]
    ELSE [ok |-> TRUE, status |-> outcome]

(***************************************************************************)
(* The runtime registry: DaemonService::select_runtime.                    *)
(***************************************************************************)
BottleCreateParams(name, wine_version, wine_label, wine_path, channel) ==
    [name |-> name, wine_version |-> wine_version, wine_label |-> wine_label,
     wine_path |-> wine_path, channel |-> channel]

NoParams == BottleCreateParams(<<>>, "", None, NoPath, None)

\* Option::unwrap_or
unwrap_or(option, default) == IF option.some THEN option.val ELSE default

default_wine_path(runtime_dir, version) ==
    runtime_dir \o <<"wine-x86_64-" \o version, "bin", "wine64">>

descriptor_to_runtime(descriptor, override_label) ==
    [into_wine_runtime(descriptor) EXCEPT
        !.label = IF override_label.some THEN override_label.val ELSE @]

\* Iterator::find: the first of the elements the predicate holds for,
\* given in list order
Find(found) ==
    IF found = <<>> THEN [some |-> FALSE, val |-> Rossetta7]
    ELSE [some |-> TRUE, val |-> found[1]]

\* mutant: the first descriptor of the channel is taken, whatever its version
select_runtime_by_channel(input, list) ==
    IF input.wine_path.some
    THEN [ok |-> TRUE,
          runtime |-> [label |-> unwrap_or(input.wine_label,
                                           "custom wine " \o input.wine_version),
                       wine64_path |-> input.wine_path.val,
                       version |-> input.wine_version,
                       channel |-> unwrap_or(input.channel, "custom")]]
    ELSE LET channel == unwrap_or(input.channel, "rossetta")
             same == Find(SelectSeq(list, LAMBDA rt : rt.channel = channel))
         IN  IF same.some
             THEN [ok |-> TRUE,
                   runtime |-> descriptor_to_runtime(same.val, input.wine_label)]
             ELSE [ok |-> TRUE,
                   runtime |-> [label |-> unwrap_or(input.wine_label,
                                                    "wine " \o input.wine_version),
                                wine64_path |-> default_wine_path(RuntimeDir,
                                                                  input.wine_version),
                                version |-> input.wine_version,
                                channel |-> channel]]

\* mutant: no descriptor of the channel is an error
select_runtime_or_fail(input, list) ==
    IF input.wine_path.some
    THEN [ok |-> TRUE,
          runtime |-> [label |-> unwrap_or(input.wine_label,
                                           "custom wine " \o input.wine_version),
                       wine64_path |-> input.wine_path.val,
                       version |-> input.wine_version,
                       channel |-> unwrap_or(input.channel, "custom")]]
    ELSE LET channel == unwrap_or(input.channel, "rossetta")
             exact == Find(SelectSeq(list, LAMBDA rt :
                               rt.channel = channel /\ rt.version = input.wine_version))
             same == Find(SelectSeq(list, LAMBDA rt : rt.channel = channel))
         IN  IF exact.some
             THEN [ok |-> TRUE,
                   runtime |-> descriptor_to_runtime(exact.val, input.wine_label)]
             ELSE IF same.some
             THEN [ok |-> TRUE,
                   runtime |-> descriptor_to_runtime(same.val, input.wine_label)]
             ELSE [ok |-> FALSE, runtime |-> GoodWine]

\* mutant: a descriptor of the channel and version wins over the path
select_runtime_list_first(input, list) ==
    LET channel == unwrap_or(input.channel, "rossetta")
        exact == Find(SelectSeq(list, LAMBDA rt :
                          rt.channel = channel /\ rt.version = input.wine_version))
    IN  IF exact.some
        THEN [ok |-> TRUE,
              runtime |-> descriptor_to_runtime(exact.val, input.wine_label)]
        ELSE select_runtime_or_fail(input, list)

\* DaemonService::select_runtime over State::runtimes
select_runtime(input, list) ==
    IF input.wine_path.some
    THEN [ok |-> TRUE,
          runtime |-> [label |-> unwrap_or(input.wine_label,
                                           "custom wine " \o input.wine_version),
                       wine64_path |-> input.wine_path.val,
                       version |-> input.wine_version,
                       channel |-> unwrap_or(input.channel, "custom")]]
    ELSE LET channel == unwrap_or(input.channel, "rossetta")
             exact == Find(SelectSeq(list, LAMBDA rt :
                               rt.channel = channel /\ rt.version = input.wine_version))
             same == Find(SelectSeq(list, LAMBDA rt : rt.channel = channel))
         IN  IF exact.some
             THEN [ok |-> TRUE,
                   runtime |-> descriptor_to_runtime(exact.val, input.wine_label)]
             ELSE IF same.some
             THEN [ok |-> TRUE,
                   runtime |-> descriptor_to_runtime(same.val, input.wine_label)]
             ELSE [ok |-> TRUE,
                   runtime |-> [label |-> unwrap_or(input.wine_label,
                                                    "wine " \o input.wine_version),
                                wine64_path |-> default_wine_path(RuntimeDir,
                                                                  input.wine_version),
                                version |-> input.wine_version,
                                channel |-> channel]]

(***************************************************************************)
(* The host the daemon runs on, and DaemonService::new.                    *)
(***************************************************************************)
\* the file name wine-<arch>-<version>
Name(arch, version) == Wine \o <<"-">> \o arch \o <<"-">> \o version
V70 == <<"7", ".", "0">>
V80 == <<"8", ".", "0">>
V90 == <<"9", ".", "0">>

\* <runtime root>/<name>/bin/<tool>
Bin(name, tool) == RuntimeDir \o <<Str(name), "bin", tool>>

\* the executables in the bin directories of the entries
Binaries(entries) ==
    UNION {{Bin(entries[i].name, tool) : tool \in entries[i].bin} :
              i \in DOMAIN entries}

\* a host: has the daemon been constructed on it (up), does the runtime
\* root exist when discover_runtimes looks, its entries in the order
\* read_dir yields them, what SILICON_ALLOY_ARM64_WINE64 is set to, and
\* the executables on its disk: those of the entries and others
Host(exists, entries, arm64, others) ==
    [up |-> FALSE, exists |-> exists, entries |-> entries, arm64 |-> arm64,
     files |-> Binaries(entries) \cup others]

\* the runtime directories of the hosts
Entry70 == DirEntry(Name(X86_64, V70), TRUE, {"wine64", "winecfg"})
Entry80 == DirEntry(Name(Arm64Arch, V80), TRUE, {"wine64", "winecfg"})
Entry90 == DirEntry(Name(X86_64, V90), TRUE, {"wine64", "winecfg"})

\* a host with one runtime, wine-x86_64-7.0, and the same host with the
\* runtime's winecfg missing
StockHost == Host(TRUE, <<Entry70>>, NoPath, {})
BareHost == Host(TRUE, <<[Entry70 EXCEPT !.bin = {"wine64"}]>>, NoPath, {})

\* DaemonService::new: the list State::runtimes is built with
new(h) ==
    discover_runtimes(RuntimeDir, h.exists, h.entries)
    \o (IF h.arm64.some /\ h.arm64.val \in h.files
        THEN <<[External EXCEPT !.wine64_path = h.arm64.val]>> ELSE <<>>)

\* the number of entries of the runtime roots discovery is explored on
MaxEntries == 3

\* entries of a runtime root: runtimes of three architectures, one with a
\* dash in its version and one with an empty version, two whose labels
\* coincide, a runtime without bin/wine64, a plain file, names of two
\* segments and with another first segment, and a name that is not UTF-8
DiscoverPool ==
    {Entry70,
     DirEntry(Name(Arm64Arch, V80), TRUE, {"wine64"}),
     DirEntry(Name(X86_64, <<"9", ".", "0", "-", "r", "c", "1">>), TRUE, {"wine64"}),
     DirEntry(Name(<<"p", "p", "c">>, <<"1">>), TRUE, {"wine64"}),
     DirEntry(Name(X86_64, <<>>), TRUE, {"wine64"}),
     DirEntry(Name(<<"a", " ", "b">>, <<"c">>), TRUE, {"wine64"}),
     DirEntry(Name(<<"a">>, <<"b", " ", "c">>), TRUE, {"wine64"}),
     DirEntry(Name(X86_64, <<"6", ".", "0">>), TRUE, {"winecfg"}),
     DirEntry(Name(X86_64, <<"5", ".", "0">>), FALSE, {}),
     DirEntry(Wine \o <<"-">> \o V70, TRUE, {"wine64"}),
     DirEntry(<<"v", "i", "n", "e", "-">> \o X86_64 \o <<"-">> \o V70, TRUE, {"wine64"}),
     [DirEntry(Name(X86_64, V80), TRUE, {"wine64"}) EXCEPT !.utf8 = FALSE]}

\* the ways up to n entries of different names lie in a directory
Arrangements(pool, n) ==
    UNION {{f \in [1..k -> pool] :
               \A i \in 1..k, j \in 1..k : i # j => f[i].name # f[j].name} :
              k \in 0..n}

\* the hosts discovery is explored on; the variable names a file that
\* exists, one that does not, or is not set
DiscoverHosts ==
    {Host(FALSE, <<>>, NoPath, {})}
    \cup {Host(TRUE, entries, x[1], x[2]) :
             entries \in Arrangements(DiscoverPool, MaxEntries),
             x \in {<<NoPath, {}>>,
                    <<Some(<<"opt", "wine64">>), {<<"opt", "wine64">>}>>,
                    <<Some(<<"opt", "wine64">>), {}>>}}

\* Path::exists of an executable: a runtime's binary or a recipe resource
Installed(path) == path \in host.files \/ path \in HostFiles

\* what launching arch -x86_64 <command> can answer: arch cannot be spawned,
\* or it runs the command, or, the command's file missing, exits non-zero
Exits(command) ==
    IF Installed(command) THEN Outcomes ELSE {"spawn_error", "exit_1"}

\* Path::parent().map(|p| p.join("winecfg")) of the main executable
winecfg_path(wine64_path) ==
    SubSeq(wine64_path, 1, Len(wine64_path) - 1) \o <<"winecfg">>

\* the runtime lists DaemonService::new can end up with: what
\* discover_runtimes found, sorted by label, and the external runtime last
SubLists(list) ==
    {SelectSeq(list, LAMBDA d : d \in keep) : keep \in SUBSET {list[i] : i \in DOMAIN list}}

\* the hosts select_runtime is explored on
SelectHosts ==
    {Host(TRUE, entries, arm64, IF arm64.some THEN {arm64.val} ELSE {}) :
        entries \in SubLists(<<Entry90, Entry80, Entry70>>),
        arm64 \in {NoPath, Some(<<"opt", "wine64">>)}}

RuntimeLists == {new(h) : h \in SelectHosts}

\* the parameters of the bottle.create requests of a run
CreateInputs ==
    {BottleCreateParams(MyGame, "7.0", None, NoPath, None),
     BottleCreateParams(<<"b">>, "7.0", None, Some(<<>>), None)}

\* the parameters select_runtime is explored with
SelectInputs ==
    {BottleCreateParams(MyGame, wine_version, wine_label, wine_path, channel) :
        wine_version \in {"7.0", "8.0", "9.0", "experimental"},
        wine_label \in {None, Some("mine")},
        wine_path \in {NoPath, Some(<<"opt", "wine64">>)},
        channel \in {None, Some("native-arm64"), Some("custom-ppc")}}

(***************************************************************************)
(* Requests and responses (core/daemon/src/rpc.rs).                        *)
(***************************************************************************)
\* RpcRequest::params, a serde_json::Value: is it an object, and what each
\* field of the object is: absent, null, a number, a string, a string that
\* parses as a uuid, or a list of strings.  Params left out are null.
FieldNames ==
    {"name", "wine_version", "wine_label", "wine_path", "channel",
     "id", "executable", "args", "bottle_id", "recipe_id"}
NoPayload == [object |-> FALSE, fields |-> [f \in FieldNames |-> "absent"]]
Object(fields) ==
    [object |-> TRUE,
     fields |-> [f \in FieldNames |->
                   IF \E p \in fields : p[1] = f
                   THEN (CHOOSE p \in fields : p[1] = f)[2] ELSE "absent"]]

\* the methods whose handler decodes params, with the fields of their
\* params struct: those that must be there, and those with serde(default)
ParamMethods == {"bottle.create", "bottle.delete", "bottle.run", "recipe.apply"}
Required(method) ==
    CASE method = "bottle.create" -> {<<"name", "String">>, <<"wine_version", "String">>}
      [] method = "bottle.delete" -> {<<"id", "Uuid">>}
      [] method = "bottle.run" -> {<<"id", "Uuid">>, <<"executable", "PathBuf">>}
      [] method = "recipe.apply" -> {<<"bottle_id", "Uuid">>, <<"recipe_id", "String">>}
      [] OTHER -> {}
Optional(method) ==
    CASE method = "bottle.create" ->
            {<<"wine_label", "String">>, <<"wine_path", "PathBuf">>,
             <<"channel", "String">>}
      [] method = "bottle.run" -> {<<"args", "Vec">>}
      [] OTHER -> {}

\* does a value of the kind deserialize as the type
Fits(kind, type) ==
    CASE type = "Uuid" -> kind = "uuid"
      [] type = "Vec" -> kind = "list"
      [] OTHER -> kind \in {"string", "uuid"}

\* serde_json::from_value(params) into the params struct of the method:
\* does it return Ok
decode(method, params) ==
    /\ params.object
    /\ \A p \in Required(method) : Fits(params.fields[p[1]], p[2])
    /\ \A p \in Optional(method) :
          \/ params.fields[p[1]] \in {"absent", "null"}
          \/ Fits(params.fields[p[1]], p[2])

\* the params object a client builds from the parameters of a create
CreatePayload(input) ==
    Object({<<"name", "string">>, <<"wine_version", "string">>,
            <<"wine_label", IF input.wine_label.some THEN "string" ELSE "absent">>,
            <<"wine_path", IF input.wine_path.some THEN "string" ELSE "absent">>,
            <<"channel", IF input.channel.some THEN "string" ELSE "null">>})

NoReq == [method |-> "", id |-> BogusId, name |-> <<>>, runtime |-> GoodWine,
          recipe_id |-> "", params |-> NoParams, payload |-> NoPayload,
          steps |-> <<>>]
CreateReq(id, input, runtime) == [NoReq EXCEPT !.method = "bottle.create",
                                   !.id = id, !.name = input.name,
                                   !.runtime = runtime, !.params = input,
                                   !.payload = CreatePayload(input)]
ListReq == [NoReq EXCEPT !.method = "bottle.list"]
RuntimeListReq == [NoReq EXCEPT !.method = "runtime.list"]
ServiceInfoReq == [NoReq EXCEPT !.method = "service.info"]
DeleteReq(id) == [NoReq EXCEPT !.method = "bottle.delete", !.id = id,
                                !.payload = Object({<<"id", "uuid">>})]
RunReq(id) == [NoReq EXCEPT !.method = "bottle.run", !.id = id,
                             !.payload = Object({<<"id", "uuid">>,
                                                 <<"executable", "string">>})]
ApplyReq(id, recipe_id) == [NoReq EXCEPT !.method = "recipe.apply", !.id = id,
                             !.recipe_id = recipe_id,
                             !.payload = Object({<<"bottle_id", "uuid">>,
                                                 <<"recipe_id", "string">>})]

\* a request whose params do not decode: the fields the handler never
\* gets to see are left as in NoReq
BadReq(method, params) == [NoReq EXCEPT !.method = method, !.payload = params]

\* params with one thing wrong: left out or not an object at all, a required
\* field absent, null or a number, an id that is a string but no uuid, or an
\* optional field that is a number
Good(method) == {<<p[1], IF p[2] = "Uuid" THEN "uuid" ELSE "string">> : p \in Required(method)}
Replace(fields, f, kind) == {p \in fields : p[1] # f} \cup {<<f, kind>>}
BadPayloads(method) ==
    {NoPayload}
    \cup {Object(Replace(Good(method), p[1], kind)) :
             p \in Required(method), kind \in {"absent", "null", "number"}}
    \cup {Object(Replace(Good(method), p[1], "string")) :
             p \in {q \in Required(method) : q[2] = "Uuid"}}
    \cup {Object(Replace(Good(method), p[1], "number")) : p \in Optional(method)}

\* RpcResponse: result carries the operation's value, error the code -32000;
\* at names the part of the handler the error came from
NoResp == [kind |-> "none", err |-> "", at |-> "", bottle |-> NullRecord,
           deleted |-> BogusId, exit_status |-> "", success |-> FALSE,
           applied |-> "", bottles |-> <<>>, runtimes |-> <<>>]
RpcError(err, at) == [NoResp EXCEPT !.kind = "error", !.err = err, !.at = at]
CreateResult(r) == [NoResp EXCEPT !.kind = "result", !.bottle = r]
DeleteResult(id) == [NoResp EXCEPT !.kind = "result", !.deleted = id]
RunResult(outcome) == [NoResp EXCEPT !.kind = "result",
                        !.exit_status = code(outcome),
                        !.success = success(outcome)]
ApplyResult(recipe_id) == [NoResp EXCEPT !.kind = "result", !.applied = recipe_id]
ListResult(bottles) == [NoResp EXCEPT !.kind = "result", !.bottles = bottles]
RuntimesResult(list) == [NoResp EXCEPT !.kind = "result", !.runtimes = list]

\* what one run of a handler has done so far: the record as loaded, the
\* number of calls of update_record, whether bottle.json existed when
\* update_record was called, what the last launch answered, whether the
\* process of a Run step exited non-zero, whether every other connection
\* was idle when the request arrived, the number of requests so far, the
\* last launch (see Launched), and where the handler was when the client
\* went away
NoHist == [rec0 |-> NullRecord, nupd |-> 0, had |-> FALSE, status |-> "",
           nonzero |-> FALSE, quiet |-> FALSE, ops0 |-> 0,
           launched |-> FALSE, command |-> <<>>, env |-> {}, at |-> 0,
           gone |-> ""]

\* hist after a call of run_wine_command at step at (0: bottle.run) that
\* returned r: when the process was spawned, the command and the variables
\* it was given
Launched(h, command, env, at, r) ==
    [h EXCEPT !.status = r.status,
              !.launched = r.ok,
              !.command = IF r.ok THEN command ELSE <<>>,
              !.env = IF r.ok THEN env ELSE {},
              !.at = IF r.ok THEN at ELSE 0]

\* the position of BottleStore::list in its scan of the bottle root: the
\* entries next_entry has yet to return, the entry at hand, and the
\* records pushed so far
NoScan == [todo |-> {}, cur |-> BogusId, bottles |-> <<>>]

\* the bottle ids a client can name: those some create has returned (or
\* bottle.list has shown), and a uuid of its own invention
Targets == known \cup {BogusId}

(***************************************************************************)
(* Initial state: DaemonService::new on an empty bottle root, no request   *)
(* in flight.  Fresh is the part of it the host does not decide.           *)
(***************************************************************************)
Fresh(dir) ==
    /\ dirs = {}
    /\ prefixes = {}
    /\ meta = [i \in AllIds |-> NoFile]
    /\ files = {}
    /\ nextId = 1
    /\ known = {}
    /\ removed = {}
    /\ ops = 0
    /\ pc = [c \in Conns |-> "idle"]
    /\ req = [c \in Conns |-> NoReq]
    /\ rec = [c \in Conns |-> NullRecord]
    /\ idx = [c \in Conns |-> 0]
    /\ fd = [c \in Conns |-> "closed"]
    /\ resp = [c \in Conns |-> NoResp]
    /\ hist = [c \in Conns |-> NoHist]
    /\ scan = [c \in Conns |-> NoScan]
    /\ clean = TRUE
    /\ recipe_dir = dir
    /\ born = [i \in Ids |-> NullRecord]
    /\ conn = [c \in Conns |-> "open"]

\* the host before the daemon is started
Down(h, dir) ==
    /\ Fresh(dir)
    /\ runtimes = <<>>
    /\ host = h

\* the state DaemonService::new returns in
Boot(h, dir) ==
    /\ Fresh(dir)
    /\ runtimes = new(h)
    /\ host = [h EXCEPT !.up = TRUE]

\* the daemon of a host with one runtime, wine-x86_64-7.0, and the default
\* recipe directory
Init == Boot(StockHost, RecipeRoot)

\* is the response the result of a bottle.create, bottle.delete or
\* bottle.list
StoreResult(response) ==
    /\ response.kind = "result"
    /\ response.applied = ""
    /\ response.exit_status = ""

\* the handler returns: handle_connection builds the response; clean stays
\* true as long as every request answered so far was a successful create,
\* delete or list
Finish(c, response) ==
    /\ pc' = [pc EXCEPT ![c] = "done"]
    /\ resp' = [resp EXCEPT ![c] = response]
    /\ clean' = (clean /\ StoreResult(response))

Goto(c, label) ==
    /\ pc' = [pc EXCEPT ![c] = label]
    /\ UNCHANGED <<resp, clean>>

\* a request line arrives on an idle connection
Accept(c, request) ==
    /\ host.up
    /\ conn[c] = "open"
    /\ pc[c] = "idle"
    /\ ops < MaxOps
    /\ ops' = ops + 1
    /\ req' = [req EXCEPT ![c] = request]

\* handle_connection writes the response line and reads the next request
Reply(c) ==
    /\ pc[c] = "done"
    /\ pc' = [pc EXCEPT ![c] = "idle"]
    /\ req' = [req EXCEPT ![c] = NoReq]
    /\ rec' = [rec EXCEPT ![c] = NullRecord]
    /\ idx' = [idx EXCEPT ![c] = 0]
    /\ fd' = [fd EXCEPT ![c] = "closed"]
    /\ resp' = [resp EXCEPT ![c] = NoResp]
    /\ hist' = [hist EXCEPT ![c] = NoHist]
    /\ scan' = [scan EXCEPT ![c] = NoScan]
    /\ UNCHANGED <<fsvars, nextId, known, removed, ops, runtimes, clean, host, recipe_dir, born, conn>>

\* the client closes its end of the connection; handle_connection looks at
\* the socket only in read_line and write_all, so the task learns of it
\* when it next reads or writes
Disconnect(c) ==
    /\ host.up
    /\ conn[c] = "open"
    /\ conn' = [conn EXCEPT ![c] = "closed"]
    /\ hist' = [hist EXCEPT ![c].gone = pc[c]]
    /\ UNCHANGED <<fsvars, nextId, known, removed, ops, pc, req, rec, idx, fd,
                   resp, scan, runtimes, clean, host, recipe_dir, born>>

\* DaemonService::new: the runtime root is read; when that fails, the
\* daemon does not start
New ==
    /\ ~host.up
    /\ \E io_ok \in BOOLEAN :
         IF io_ok
         THEN /\ host' = [host EXCEPT !.up = TRUE]
              /\ runtimes' = new(host)
         ELSE UNCHANGED <<host, runtimes>>
    /\ UNCHANGED <<fsvars, nextId, known, removed, ops, pc, req, rec, idx, fd,
                   resp, hist, scan, clean, recipe_dir, born, conn>>

(***************************************************************************)
(* The runtime root changes on disk while the daemon runs.                 *)
(***************************************************************************)
\* the runtime directories that come and go
InstallPool == {Entry70, Entry80, Entry90}

\* a runtime directory is put into the runtime root
Install(entry) ==
    /\ host.exists
    /\ Len(host.entries) < MaxEntries
    /\ \A i \in DOMAIN host.entries : host.entries[i].name # entry.name
    /\ host' = [host EXCEPT !.entries = Append(@, entry),
                            !.files = @ \cup Binaries(<<entry>>)]
    /\ UNCHANGED <<fsvars, nextId, known, removed, ops, pc, req, rec, idx, fd,
                   resp, hist, scan, runtimes, clean, recipe_dir, born, conn>>

\* a runtime directory is removed from the runtime root
Uninstall(i) ==
    /\ i \in DOMAIN host.entries
    /\ host' = [host EXCEPT
                   !.entries = SubSeq(@, 1, i - 1) \o SubSeq(@, i + 1, Len(@)),
                   !.files = @ \ Binaries(<<host.entries[i]>>)]
    /\ UNCHANGED <<fsvars, nextId, known, removed, ops, pc, req, rec, idx, fd,
                   resp, hist, scan, runtimes, clean, recipe_dir, born, conn>>

(***************************************************************************)
(* runtime.list and service.info: DaemonService::runtime_list,             *)
(* DaemonService::service_info.                                            *)
(***************************************************************************)
\* mutant: the runtime root is read again for every request
RuntimeListRescans(c) ==
    /\ Accept(c, RuntimeListReq)
    /\ Finish(c, RuntimesResult(new(host)))
    /\ UNCHANGED <<fsvars, nextId, known, removed, rec, idx, fd, hist, scan, runtimes, host, recipe_dir, born, conn>>

RuntimeList(c) ==
    /\ Accept(c, RuntimeListReq)
    /\ Finish(c, RuntimesResult(runtimes))
    /\ UNCHANGED <<fsvars, nextId, known, removed, rec, idx, fd, hist, scan, runtimes, host, recipe_dir, born, conn>>

ServiceInfo(c) ==
    /\ Accept(c, ServiceInfoReq)
    /\ Finish(c, RuntimesResult(runtimes))
    /\ UNCHANGED <<fsvars, nextId, known, removed, rec, idx, fd, hist, scan, runtimes, host, recipe_dir, born, conn>>

(***************************************************************************)
(* The first statement of bottle_create, bottle_delete, bottle_run and     *)
(* recipe_apply: serde_json::from_value(params).context(..)?  The actions  *)
(* of these handlers below are the continuation after Ok.                  *)
(***************************************************************************)
\* mutant: the handler starts on the store before it looks at the params:
\* the record directory of the next bottle is made
BadParamsAfterStore(c, method, params) ==
    /\ method \in ParamMethods
    /\ ~decode(method, params)
    /\ Accept(c, BadReq(method, params))
    /\ dirs' = dirs \cup {nextId}
    /\ Finish(c, RpcError("InvalidParams", "decode"))
    /\ UNCHANGED <<prefixes, meta, files, nextId, known, removed, rec, idx, fd, hist, scan, runtimes, host, recipe_dir, born, conn>>

BadParams(c, method, params) ==
    /\ method \in ParamMethods
    /\ ~decode(method, params)
    /\ Accept(c, BadReq(method, params))
    /\ Finish(c, RpcError("InvalidParams", "decode"))
    /\ UNCHANGED <<fsvars, nextId, known, removed, rec, idx, fd, hist, scan, runtimes, host, recipe_dir, born, conn>>

(***************************************************************************)
(* Lines that are no request of a known method: handle_connection.         *)
(***************************************************************************)
\* the line handle_connection has read, when it is no request the service
\* has a handler for: "blank" is empty after trim, "bytes" is not UTF-8,
\* "text" is UTF-8 but no JSON, "json" is JSON but no RpcRequest (a number,
\* an object without method), "unknown" a request of a method handle does
\* not know
Line(kind) == [NoReq EXCEPT !.method = "<" \o kind \o ">"]

\* trimmed.is_empty(): continue, nothing is written
BlankLine(c) ==
    /\ Accept(c, Line("blank"))
    /\ UNCHANGED <<fsvars, nextId, known, removed, pc, rec, idx, fd, resp, hist, scan, runtimes, clean, host, recipe_dir, born, conn>>

\* read_line(&mut line).await? with bytes that are not UTF-8: read_line
\* returns an error, handle_connection returns it, the task ends and the
\* stream is dropped
BadBytes(c) ==
    /\ Accept(c, Line("bytes"))
    /\ conn' = [conn EXCEPT ![c] = "closed"]
    /\ UNCHANGED <<fsvars, nextId, known, removed, pc, rec, idx, fd, resp, hist, scan, runtimes, clean, host, recipe_dir, born>>

\* serde_json::from_str fails: the error -32700 is the response
InvalidJson(c, kind) ==
    /\ kind \in {"text", "json"}
    /\ Accept(c, Line(kind))
    /\ Finish(c, RpcError("InvalidJson", "parse"))
    /\ UNCHANGED <<fsvars, nextId, known, removed, rec, idx, fd, hist, scan, runtimes, host, recipe_dir, born, conn>>

\* DaemonService::handle, the last arm of the match
UnknownMethod(c) ==
    /\ Accept(c, Line("unknown"))
    /\ Finish(c, RpcError("UnknownMethod", "handle"))
    /\ UNCHANGED <<fsvars, nextId, known, removed, rec, idx, fd, hist, scan, runtimes, host, recipe_dir, born, conn>>

(***************************************************************************)
(* BottleName of alloy-core: value.parse::<BottleName>(), with the value   *)
(* in req.name and the outcome in resp.                                    *)
(***************************************************************************)
Parsed(value) ==
    IF from_str(value).ok
    THEN [NoResp EXCEPT !.kind = "result", !.bottle.name = from_str(value).name]
    ELSE RpcError(from_str(value).err, "parse")

\* value.parse::<BottleName>()
ParseName(c, value) ==
    /\ pc[c] = "idle"
    /\ req' = [req EXCEPT ![c] = [NoReq EXCEPT !.method = "parse", !.name = value]]
    /\ pc' = [pc EXCEPT ![c] = "done"]
    /\ resp' = [resp EXCEPT ![c] = Parsed(value)]
    /\ UNCHANGED <<fsvars, nextId, known, removed, ops, rec, idx, fd, hist, scan, runtimes, clean, host, recipe_dir, born, conn>>

\* name.as_str().parse::<BottleName>(): the slug is parsed again
Reparse(c) ==
    /\ pc[c] = "done"
    /\ req[c].method = "parse"
    /\ resp[c].kind = "result"
    /\ req' = [req EXCEPT ![c].name = resp[c].bottle.name]
    /\ resp' = [resp EXCEPT ![c] = Parsed(resp[c].bottle.name)]
    /\ UNCHANGED <<fsvars, nextId, known, removed, ops, pc, rec, idx, fd, hist, scan, runtimes, clean, host, recipe_dir, born, conn>>

(***************************************************************************)
(* bottle.create: DaemonService::bottle_create, BottleStore::create.       *)
(***************************************************************************)
\* mutant: the id of an earlier create is handed out again
BottleCreateReuses(c, input) ==
    /\ nextId <= MaxIds
    /\ \E id \in 1..nextId :
         Accept(c, CreateReq(id, input, select_runtime(input, runtimes).runtime))
    /\ nextId' = nextId + 1
    /\ Goto(c, "create_dir")
    /\ UNCHANGED <<fsvars, known, removed, rec, idx, fd, hist, scan, runtimes, host, recipe_dir, born, conn>>

\* select_runtime, then Uuid::new_v4: an id no earlier create was given
BottleCreate(c, input) ==
    /\ nextId <= MaxIds
    /\ LET selected == select_runtime(input, runtimes) IN
       IF selected.ok
       THEN /\ Accept(c, CreateReq(nextId, input, selected.runtime))
            /\ nextId' = nextId + 1
            /\ Goto(c, "create_dir")
       ELSE /\ Accept(c, CreateReq(BogusId, input, selected.runtime))
            /\ Finish(c, RpcError("NoRuntime", "select"))
            /\ UNCHANGED nextId
    /\ UNCHANGED <<fsvars, known, removed, rec, idx, fd, hist, scan, runtimes, host, recipe_dir, born, conn>>

\* fs::create_dir_all(&bottle_dir)
CreateDir(c) ==
    /\ pc[c] = "create_dir"
    /\ \E io_ok \in BOOLEAN :
         IF io_ok
         THEN /\ dirs' = dirs \cup {req[c].id}
              /\ Goto(c, "create_prefix")
         ELSE /\ Finish(c, RpcError("Io", "create"))
              /\ UNCHANGED dirs
    /\ UNCHANGED <<prefixes, meta, files, nextId, known, removed, ops, req, rec, idx, fd, hist, scan, runtimes, host, recipe_dir, born, conn>>

\* mutant: the prefix directory is not made
CreatePrefixSkipped(c) ==
    /\ pc[c] = "create_prefix"
    /\ \E created_at \in Timestamps :
         rec' = [rec EXCEPT ![c] =
                   BottleRecord(req[c].id, req[c].name, created_at,
                                req[c].runtime, <<>>)]
    /\ Goto(c, "open")
    /\ UNCHANGED <<fsvars, nextId, known, removed, ops, req, idx, fd, hist, scan, runtimes, host, recipe_dir, born, conn>>

\* fs::create_dir_all(&prefix), then the record is built in memory
CreatePrefix(c) ==
    /\ pc[c] = "create_prefix"
    /\ \E io_ok \in BOOLEAN, created_at \in Timestamps :
         IF io_ok
         THEN /\ dirs' = dirs \cup {req[c].id}
              /\ prefixes' = prefixes \cup {req[c].id}
              /\ rec' = [rec EXCEPT ![c] =
                            BottleRecord(req[c].id, req[c].name, created_at,
                                         req[c].runtime, <<>>)]
              /\ Goto(c, "open")
         ELSE /\ Finish(c, RpcError("Io", "create"))
              /\ UNCHANGED <<dirs, prefixes, rec>>
    /\ UNCHANGED <<meta, files, nextId, known, removed, ops, req, idx, fd, hist, scan, runtimes, host, recipe_dir, born, conn>>

(***************************************************************************)
(* BottleStore::write_record, for create and for update_record.            *)
(***************************************************************************)
WriteAt(c) == IF req[c].method = "bottle.create" THEN "create" ELSE "update"

\* fs::File::create(&meta_path): creates or truncates bottle.json; fails
\* when the record directory does not exist
WriteOpen(c) ==
    /\ pc[c] = "open"
    /\ \E io_ok \in BOOLEAN :
         IF io_ok /\ req[c].id \in dirs
         THEN /\ meta' = [meta EXCEPT ![req[c].id] = EmptyFile]
              /\ fd' = [fd EXCEPT ![c] = "open"]
              /\ Goto(c, "write")
         ELSE /\ Finish(c, RpcError("Io", WriteAt(c)))
              /\ UNCHANGED <<meta, fd>>
    /\ UNCHANGED <<dirs, prefixes, files, nextId, known, removed, ops, req, rec, idx, hist, scan, runtimes, host, recipe_dir, born, conn>>

\* what bottle.json holds after write_all of r at offset 0: r, unless
\* another writer's bytes were already there (they may stick out behind r)
Written(old, r) ==
    IF old.kind = "empty" \/ old = Json(r) THEN {Json(r)}
    ELSE {Json(r), Garbage}

\* the value the handler returns once the record is written
WriteResult(c) ==
    IF req[c].method = "bottle.create" THEN CreateResult(rec[c])
    ELSE ApplyResult(req[c].recipe_id)

\* file.write_all(&data), and the handler returns Ok; a file unlinked since
\* it was opened takes the bytes with it
WriteAll(c) ==
    /\ pc[c] = "write"
    /\ \E io_ok \in BOOLEAN :
         IF io_ok
         THEN /\ IF fd[c] = "open"
                 THEN \E m \in Written(meta[req[c].id], rec[c]) :
                          meta' = [meta EXCEPT ![req[c].id] = m]
                 ELSE UNCHANGED meta
              /\ known' = IF req[c].method = "bottle.create"
                          THEN known \cup {req[c].id} ELSE known
              /\ born' = IF req[c].method = "bottle.create"
                         THEN [born EXCEPT ![req[c].id] = rec[c]] ELSE born
              /\ Finish(c, WriteResult(c))
         ELSE /\ Finish(c, RpcError("Io", WriteAt(c)))
              /\ UNCHANGED <<meta, known, born>>
    /\ fd' = [fd EXCEPT ![c] = "closed"]
    /\ UNCHANGED <<dirs, prefixes, files, nextId, removed, ops, req, rec, idx, hist, scan, runtimes, host, recipe_dir, conn>>

(***************************************************************************)
(* bottle.list: DaemonService::bottle_list, BottleStore::list.             *)
(***************************************************************************)
\* fs::read_dir(&self.root): the entries of the bottle root
BottleList(c) ==
    /\ Accept(c, ListReq)
    /\ scan' = [scan EXCEPT ![c] = [NoScan EXCEPT !.todo = dirs]]
    /\ hist' = [hist EXCEPT ![c].quiet = \A d \in Conns \ {c} : pc[d] = "idle",
                             ![c].ops0 = ops + 1]
    /\ Goto(c, "list_next")
    /\ UNCHANGED <<fsvars, nextId, known, removed, rec, idx, fd, runtimes, host, recipe_dir, born, conn>>

\* mutant: the scan ends with the first record found
ListNextFirstOnly(c) ==
    /\ pc[c] = "list_next"
    /\ IF scan[c].todo = {} \/ scan[c].bottles # <<>>
       THEN /\ Finish(c, ListResult(SortByName(scan[c].bottles)))
            /\ UNCHANGED scan
       ELSE \E id \in scan[c].todo :
              /\ scan' = [scan EXCEPT ![c].todo = @ \ {id}, ![c].cur = id]
              /\ Goto(c, IF meta[id].kind # "none" THEN "list_read" ELSE "list_next")
    /\ UNCHANGED <<fsvars, nextId, known, removed, ops, req, rec, idx, fd, hist, runtimes, host, recipe_dir, born, conn>>

\* entries.next_entry(), in whatever order the directory yields its
\* entries, and meta_path.exists(); after the last entry the records are
\* sorted and returned
ListNext(c) ==
    /\ pc[c] = "list_next"
    /\ IF scan[c].todo = {}
       THEN /\ Finish(c, ListResult(SortByName(scan[c].bottles)))
            /\ UNCHANGED scan
       ELSE \E id \in scan[c].todo :
              /\ scan' = [scan EXCEPT ![c].todo = @ \ {id}, ![c].cur = id]
              /\ Goto(c, IF meta[id].kind # "none" THEN "list_read" ELSE "list_next")
    /\ UNCHANGED <<fsvars, nextId, known, removed, ops, req, rec, idx, fd, hist, runtimes, host, recipe_dir, born, conn>>

\* fs::read(&meta_path).await? and serde_json::from_slice: a record is
\* pushed, bytes that do not parse are logged and skipped, a file that is
\* gone by now is an error of list
ListRead(c) ==
    /\ pc[c] = "list_read"
    /\ LET file == meta[scan[c].cur] IN
       CASE file.kind = "none" ->
              /\ Finish(c, RpcError("NotFound", "list"))
              /\ UNCHANGED scan
         [] file.kind = "json" ->
              /\ scan' = [scan EXCEPT ![c].bottles = Append(@, file.rec)]
              /\ Goto(c, "list_next")
         [] OTHER ->
              /\ Goto(c, "list_next")
              /\ UNCHANGED scan
    /\ UNCHANGED <<fsvars, nextId, known, removed, ops, req, rec, idx, fd, hist, runtimes, host, recipe_dir, born, conn>>

(***************************************************************************)
(* bottle.delete: DaemonService::bottle_delete, BottleStore::remove.       *)
(***************************************************************************)
\* dir.exists(), else "bottle {id} not found"
BottleDelete(c, id) ==
    /\ Accept(c, DeleteReq(id))
    /\ IF id \in dirs
       THEN Goto(c, "remove_entries")
       ELSE Finish(c, RpcError("NotFound", "remove"))
    /\ UNCHANGED <<fsvars, nextId, known, removed, rec, idx, fd, hist, scan, runtimes, host, recipe_dir, born, conn>>

\* mutant: the metadata of every bottle is unlinked
RemoveEntriesEverywhere(c) ==
    /\ pc[c] = "remove_entries"
    /\ \E io_ok \in BOOLEAN :
         IF io_ok /\ req[c].id \in dirs
         THEN /\ meta' = [i \in AllIds |-> NoFile]
              /\ prefixes' = prefixes \ {req[c].id}
              /\ files' = {f \in files : ~IsPrefixOf(BottleDir(req[c].id), f)}
              /\ fd' = [d \in Conns |->
                           IF fd[d] = "open" /\ req[d].id = req[c].id
                           THEN "unlinked" ELSE fd[d]]
              /\ Goto(c, "remove_dir")
         ELSE /\ Finish(c, RpcError("Io", "remove"))
              /\ UNCHANGED <<meta, prefixes, files, fd>>
    /\ UNCHANGED <<dirs, nextId, known, removed, ops, req, rec, idx, hist, scan, runtimes, host, recipe_dir, born, conn>>

\* fs::remove_dir_all(&dir), first half: everything inside the directory
\* is unlinked
RemoveEntries(c) ==
    /\ pc[c] = "remove_entries"
    /\ \E io_ok \in BOOLEAN :
         IF io_ok /\ req[c].id \in dirs
         THEN /\ meta' = [meta EXCEPT ![req[c].id] = NoFile]
              /\ prefixes' = prefixes \ {req[c].id}
              /\ files' = {f \in files : ~IsPrefixOf(BottleDir(req[c].id), f)}
              /\ fd' = [d \in Conns |->
                           IF fd[d] = "open" /\ req[d].id = req[c].id
                           THEN "unlinked" ELSE fd[d]]
              /\ Goto(c, "remove_dir")
         ELSE /\ Finish(c, RpcError("Io", "remove"))
              /\ UNCHANGED <<meta, prefixes, files, fd>>
    /\ UNCHANGED <<dirs, nextId, known, removed, ops, req, rec, idx, hist, scan, runtimes, host, recipe_dir, born, conn>>

\* is <root>/<id> an empty directory
IsEmptyDir(id) ==
    /\ id \in dirs
    /\ meta[id].kind = "none"
    /\ id \notin prefixes
    /\ \A f \in files : ~IsPrefixOf(BottleDir(id), f)

\* fs::remove_dir_all(&dir), second half: the directory itself is removed,
\* which fails when an entry has appeared in it meanwhile
RemoveDir(c) ==
    /\ pc[c] = "remove_dir"
    /\ \E io_ok \in BOOLEAN :
         IF io_ok /\ IsEmptyDir(req[c].id)
         THEN /\ dirs' = dirs \ {req[c].id}
              /\ removed' = removed \cup {req[c].id}
              /\ Finish(c, DeleteResult(req[c].id))
         ELSE /\ Finish(c, RpcError("Io", "remove"))
              /\ UNCHANGED <<dirs, removed>>
    /\ UNCHANGED <<prefixes, meta, files, nextId, known, ops, req, rec, idx, fd, hist, scan, runtimes, host, recipe_dir, born, conn>>

(***************************************************************************)
(* bottle.run: DaemonService::bottle_run.                                  *)
(***************************************************************************)
\* mutant: a non-zero exit is answered with an RPC error
RunResponseStrict(r) ==
    IF r.ok /\ success(r.status) THEN RunResult(r.status)
    ELSE RpcError("Launch", "run")

\* the response of bottle.run to what run_wine_command returned
RunResponse(r) ==
    IF r.ok THEN RunResult(r.status) ELSE RpcError("Launch", "run")

\* mutant: without a record the default runtime is launched in the prefix
\* the id would have, and the failure to load is reported afterwards
BottleRunLaunchesFirst(c, id) ==
    /\ Accept(c, RunReq(id))
    /\ IF record(id).ok
       THEN /\ rec' = [rec EXCEPT ![c] = record(id).rec]
            /\ \E outcome \in Exits(record(id).rec.wine_runtime.wine64_path) :
                 LET r == run_wine_command(id, outcome) IN
                 /\ hist' = [hist EXCEPT ![c] =
                               Launched(@, record(id).rec.wine_runtime.wine64_path,
                                        command_env(bottle_prefix(id),
                                                    record(id).rec.environment, <<>>),
                                        0, r)]
                 /\ Finish(c, RunResponse(r))
       ELSE /\ hist' = [hist EXCEPT ![c] =
                          Launched(@, <<"wine64">>,
                                   command_env(bottle_prefix(id), <<>>, <<>>), 0,
                                   [ok |-> TRUE, status |-> "exit_1"])]
            /\ Finish(c, RpcError(record(id).err, "load"))
            /\ UNCHANGED rec
    /\ UNCHANGED <<fsvars, nextId, known, removed, idx, fd, scan, runtimes, host, recipe_dir, born, conn>>

BottleRun(c, id) ==
    /\ Accept(c, RunReq(id))
    /\ IF record(id).ok
       THEN /\ rec' = [rec EXCEPT ![c] = record(id).rec]
            /\ \E outcome \in Exits(record(id).rec.wine_runtime.wine64_path) :
                 LET r == run_wine_command(id, outcome) IN
                 /\ hist' = [hist EXCEPT ![c] =
                               Launched(@, record(id).rec.wine_runtime.wine64_path,
                                        command_env(bottle_prefix(id),
                                                    record(id).rec.environment, <<>>),
                                        0, r)]
                 /\ Finish(c, RunResponse(r))
       ELSE /\ Finish(c, RpcError(record(id).err, "load"))
            /\ UNCHANGED <<rec, hist>>
    /\ UNCHANGED <<fsvars, nextId, known, removed, idx, fd, scan, runtimes, host, recipe_dir, born, conn>>

(***************************************************************************)
(* recipe.apply: DaemonService::recipe_apply, DaemonService::apply_recipe. *)
(***************************************************************************)
\* recipe.manifest.steps of the Recipe that recipe_apply found and handed
\* to apply_recipe
Steps(c) == req[c].steps
Step(c) == Steps(c)[idx[c]]

\* where the handler goes on from after step idx[c]
NextLabel(c) == IF idx[c] >= Len(Steps(c)) THEN "update" ELSE "step"

\* the for loop moves to the next step, or leaves the loop after the last
Advance(c) ==
    /\ idx' = [idx EXCEPT ![c] = idx[c] + 1]
    /\ Goto(c, NextLabel(c))

\* find_recipe, then the record is loaded once
\* mutant: the bottle's record is loaded before the recipe is looked for
RecipeApplyRecordFirst(c, id, recipe_id) ==
    /\ Accept(c, [ApplyReq(id, recipe_id) EXCEPT
                     !.steps = find_recipe(recipe_dir, recipe_id).steps])
    /\ IF ~record(id).ok
       THEN /\ Finish(c, RpcError(record(id).err, "load"))
            /\ UNCHANGED <<rec, idx, hist>>
       ELSE IF ~find_recipe(recipe_dir, recipe_id).ok
       THEN /\ Finish(c, RpcError(find_recipe(recipe_dir, recipe_id).err, "recipe"))
            /\ UNCHANGED <<rec, idx, hist>>
       ELSE /\ rec' = [rec EXCEPT ![c] = record(id).rec]
            /\ hist' = [hist EXCEPT ![c].rec0 = record(id).rec]
            /\ idx' = [idx EXCEPT ![c] = 1]
            /\ Goto(c, IF find_recipe(recipe_dir, recipe_id).steps = <<>>
                       THEN "update" ELSE "step")
    /\ UNCHANGED <<fsvars, nextId, known, removed, fd, scan, runtimes, host, recipe_dir, born, conn>>

RecipeApply(c, id, recipe_id) ==
    /\ Accept(c, [ApplyReq(id, recipe_id) EXCEPT
                     !.steps = find_recipe(recipe_dir, recipe_id).steps])
    /\ IF ~find_recipe(recipe_dir, recipe_id).ok
       THEN /\ Finish(c, RpcError(find_recipe(recipe_dir, recipe_id).err, "recipe"))
            /\ UNCHANGED <<rec, idx, hist>>
       ELSE IF ~record(id).ok
       THEN /\ Finish(c, RpcError(record(id).err, "load"))
            /\ UNCHANGED <<rec, idx, hist>>
       ELSE /\ rec' = [rec EXCEPT ![c] = record(id).rec]
            /\ hist' = [hist EXCEPT ![c].rec0 = record(id).rec]
            /\ idx' = [idx EXCEPT ![c] = 1]
            /\ Goto(c, IF find_recipe(recipe_dir, recipe_id).steps = <<>>
                       THEN "update" ELSE "step")
    /\ UNCHANGED <<fsvars, nextId, known, removed, fd, scan, runtimes, host, recipe_dir, born, conn>>

\* mutant: a process that cannot be spawned is logged like a non-zero exit
StepRunLogsOnly(c) ==
    /\ pc[c] = "step"
    /\ Step(c).type = "run"
    /\ \E outcome \in Exits(resource(recipe_dir, Step(c).path)) :
         LET r == run_wine_command(req[c].id, outcome) IN
         /\ hist' = [hist EXCEPT ![c] =
                       [Launched(@, resource(recipe_dir, Step(c).path),
                                 command_env(bottle_prefix(req[c].id),
                                             rec[c].environment, <<>>),
                                 idx[c], r)
                          EXCEPT !.nonzero = @ \/ r.status \in {"exit_1", "signal"}]]
         /\ Advance(c)
    /\ UNCHANGED <<fsvars, nextId, known, removed, ops, req, rec, fd, scan, runtimes, host, recipe_dir, born, conn>>

\* RecipeStep::Run
StepRun(c) ==
    /\ pc[c] = "step"
    /\ Step(c).type = "run"
    /\ \E outcome \in Exits(resource(recipe_dir, Step(c).path)) :
         LET r == run_wine_command(req[c].id, outcome) IN
         /\ hist' = [hist EXCEPT ![c] =
                       [Launched(@, resource(recipe_dir, Step(c).path),
                                 command_env(bottle_prefix(req[c].id),
                                             rec[c].environment, <<>>),
                                 idx[c], r)
                          EXCEPT !.nonzero = @ \/ r.status \in {"exit_1", "signal"}]]
         /\ IF r.ok
            THEN Advance(c)
            ELSE /\ Finish(c, RpcError("Launch", "step"))
                 /\ UNCHANGED idx
    /\ UNCHANGED <<fsvars, nextId, known, removed, ops, req, rec, fd, scan, runtimes, host, recipe_dir, born, conn>>

\* RecipeStep::WaitForExit
StepWaitForExit(c) ==
    /\ pc[c] = "step"
    /\ Step(c).type = "wait_for_exit"
    /\ Advance(c)
    /\ UNCHANGED <<fsvars, nextId, known, removed, ops, req, rec, fd, hist, scan, runtimes, host, recipe_dir, born, conn>>

\* RecipeStep::WineCfg: the version is pushed, then winecfg is launched
\* from the directory of the runtime's main executable
StepWineCfg(c) ==
    /\ pc[c] = "step"
    /\ Step(c).type = "wine_cfg"
    /\ rec' = [rec EXCEPT ![c].environment = WineCfgStep(@, Step(c).version)]
    /\ IF ~HasParent(rec[c].wine_runtime.wine64_path)
       THEN /\ Finish(c, RpcError("NoCompanion", "step"))
            /\ UNCHANGED <<idx, hist>>
       ELSE \E outcome \in Exits(winecfg_path(rec[c].wine_runtime.wine64_path)) :
              LET r == run_wine_command(req[c].id, outcome) IN
              /\ hist' = [hist EXCEPT ![c] =
                            Launched(@, winecfg_path(rec[c].wine_runtime.wine64_path),
                                     command_env(bottle_prefix(req[c].id),
                                                 rec'[c].environment, <<>>),
                                     idx[c], r)]
              /\ IF r.ok
                 THEN Advance(c)
                 ELSE /\ Finish(c, RpcError("Launch", "step"))
                      /\ UNCHANGED idx
    /\ UNCHANGED <<fsvars, nextId, known, removed, ops, req, fd, scan, runtimes, host, recipe_dir, born, conn>>

\* mutant: every Env step loads the record again and changes that
StepEnvReloads(c) ==
    /\ pc[c] = "step"
    /\ Step(c).type = "env"
    /\ rec' = [rec EXCEPT ![c] =
                  IF record(req[c].id).ok
                  THEN [record(req[c].id).rec EXCEPT
                           !.environment = EnvStep(@, Step(c).variables)]
                  ELSE [@ EXCEPT !.environment = EnvStep(@, Step(c).variables)]]
    /\ Advance(c)
    /\ UNCHANGED <<fsvars, nextId, known, removed, ops, req, fd, hist, scan, runtimes, host, recipe_dir, born, conn>>

\* mutant: every Env step saves the record at once
StepEnvSaves(c) ==
    /\ pc[c] = "step"
    /\ Step(c).type = "env"
    /\ rec' = [rec EXCEPT ![c].environment = EnvStep(@, Step(c).variables)]
    /\ meta' = [meta EXCEPT ![req[c].id] = Json(rec'[c])]
    /\ Advance(c)
    /\ UNCHANGED <<dirs, prefixes, files, nextId, known, removed, ops, req, fd, hist, scan, runtimes, host, recipe_dir, born, conn>>

\* RecipeStep::Env
StepEnv(c) ==
    /\ pc[c] = "step"
    /\ Step(c).type = "env"
    /\ rec' = [rec EXCEPT ![c].environment = EnvStep(@, Step(c).variables)]
    /\ Advance(c)
    /\ UNCHANGED <<fsvars, nextId, known, removed, ops, req, fd, hist, scan, runtimes, host, recipe_dir, born, conn>>

\* mutant: the source is not looked at before the directories are made
StepCopyUnchecked(c) ==
    /\ pc[c] = "step"
    /\ Step(c).type = "copy"
    /\ Goto(c, "copy_mkdir")
    /\ UNCHANGED <<fsvars, nextId, known, removed, ops, req, rec, idx, fd, hist, scan, runtimes, host, recipe_dir, born, conn>>

\* mutant: a missing source saves what the earlier steps accumulated
StepCopySaves(c) ==
    /\ pc[c] = "step"
    /\ Step(c).type = "copy"
    /\ IF resource(recipe_dir, Step(c).path) \in HostFiles
       THEN Goto(c, "copy_mkdir") /\ UNCHANGED meta
       ELSE /\ Finish(c, RpcError("NotFound", "step"))
            /\ meta' = [meta EXCEPT ![req[c].id] = Json(rec[c])]
    /\ UNCHANGED <<dirs, prefixes, files, nextId, known, removed, ops, req, rec, idx, fd, hist, scan, runtimes, host, recipe_dir, born, conn>>

\* mutant: a missing source rolls back the files copied so far
StepCopyRollsBack(c) ==
    /\ pc[c] = "step"
    /\ Step(c).type = "copy"
    /\ IF resource(recipe_dir, Step(c).path) \in HostFiles
       THEN Goto(c, "copy_mkdir") /\ UNCHANGED files
       ELSE /\ Finish(c, RpcError("NotFound", "step"))
            /\ files' = {f \in files : ~IsPrefixOf(bottle_prefix(req[c].id), f)}
    /\ UNCHANGED <<dirs, prefixes, meta, nextId, known, removed, ops, req, rec, idx, fd, hist, scan, runtimes, host, recipe_dir, born, conn>>

\* RecipeStep::Copy: source.exists()
StepCopy(c) ==
    /\ pc[c] = "step"
    /\ Step(c).type = "copy"
    /\ IF resource(recipe_dir, Step(c).path) \in HostFiles
       THEN Goto(c, "copy_mkdir")
       ELSE Finish(c, RpcError("NotFound", "step"))
    /\ UNCHANGED <<fsvars, nextId, known, removed, ops, req, rec, idx, fd, hist, scan, runtimes, host, recipe_dir, born, conn>>

\* prefix.join(to) and its parent directory
Destination(c) == Join(bottle_prefix(req[c].id), Step(c).to)
Parent(p) == SubSeq(p, 1, Len(p) - 1)

\* fs::create_dir_all(parent): every missing directory on the way is made
CopyMkdir(c) ==
    /\ pc[c] = "copy_mkdir"
    /\ \E io_ok \in BOOLEAN :
         IF io_ok
         THEN /\ dirs' = IF IsPrefixOf(BottleDir(req[c].id), Parent(Destination(c)))
                         THEN dirs \cup {req[c].id} ELSE dirs
              /\ prefixes' = IF IsPrefixOf(bottle_prefix(req[c].id), Parent(Destination(c)))
                             THEN prefixes \cup {req[c].id} ELSE prefixes
              /\ Goto(c, "copy_file")
         ELSE /\ Finish(c, RpcError("Io", "step"))
              /\ UNCHANGED <<dirs, prefixes>>
    /\ UNCHANGED <<meta, files, nextId, known, removed, ops, req, rec, idx, fd, hist, scan, runtimes, host, recipe_dir, born, conn>>

\* does the directory the destination lies in exist
ParentExists(c) ==
    IsPrefixOf(bottle_prefix(req[c].id), Parent(Destination(c)))
        => req[c].id \in prefixes

\* fs::copy(&source, &destination)
CopyFile(c) ==
    /\ pc[c] = "copy_file"
    /\ \E io_ok \in BOOLEAN :
         IF io_ok /\ ParentExists(c)
         THEN /\ files' = files \cup {Destination(c)}
              /\ Advance(c)
         ELSE /\ Finish(c, RpcError("Io", "step"))
              /\ UNCHANGED <<files, idx>>
    /\ UNCHANGED <<dirs, prefixes, meta, nextId, known, removed, ops, req, rec, fd, hist, scan, runtimes, host, recipe_dir, born, conn>>

\* mutant: the record is read again and the run's entries are added to the
\* environment it holds by now
UpdateRecordMerges(c) ==
    /\ pc[c] = "update"
    /\ hist' = [hist EXCEPT ![c].nupd = @ + 1,
                             ![c].had = meta[req[c].id].kind # "none"]
    /\ rec' = [rec EXCEPT ![c].environment =
                  IF record(req[c].id).ok
                  THEN record(req[c].id).rec.environment \o @ ELSE @]
    /\ IF req[c].id \in dirs
       THEN Goto(c, "open")
       ELSE Finish(c, RpcError("NotFound", "update"))
    /\ UNCHANGED <<fsvars, nextId, known, removed, ops, req, idx, fd, scan, runtimes, host, recipe_dir, born, conn>>

\* mutant: the runtime is resolved again, from the runtime root as it is
\* now, before the record is saved
UpdateRecordResolves(c) ==
    /\ pc[c] = "update"
    /\ hist' = [hist EXCEPT ![c].nupd = @ + 1,
                             ![c].had = meta[req[c].id].kind # "none"]
    /\ rec' = [rec EXCEPT ![c].wine_runtime =
                  select_runtime(BottleCreateParams(rec[c].name, @.version,
                                                    None, NoPath, None),
                                 new(host)).runtime]
    /\ IF req[c].id \in dirs
       THEN Goto(c, "open")
       ELSE Finish(c, RpcError("NotFound", "update"))
    /\ UNCHANGED <<fsvars, nextId, known, removed, ops, req, idx, fd, scan, runtimes, host, recipe_dir, born, conn>>

\* mutant: the handler goes on only while its client is there
UpdateRecordWhileConnected(c) ==
    /\ pc[c] = "update"
    /\ conn[c] = "open"
    /\ hist' = [hist EXCEPT ![c].nupd = @ + 1,
                             ![c].had = meta[req[c].id].kind # "none"]
    /\ IF req[c].id \in dirs
       THEN Goto(c, "open")
       ELSE Finish(c, RpcError("NotFound", "update"))
    /\ UNCHANGED <<fsvars, nextId, known, removed, ops, req, rec, idx, fd, scan, runtimes, host, recipe_dir, born, conn>>

\* BottleStore::update_record: dir.exists(), else "bottle {id} not found"
UpdateRecord(c) ==
    /\ pc[c] = "update"
    /\ hist' = [hist EXCEPT ![c].nupd = @ + 1,
                             ![c].had = meta[req[c].id].kind # "none"]
    /\ IF req[c].id \in dirs
       THEN Goto(c, "open")
       ELSE Finish(c, RpcError("NotFound", "update"))
    /\ UNCHANGED <<fsvars, nextId, known, removed, ops, req, rec, idx, fd, scan, runtimes, host, recipe_dir, born, conn>>

(***************************************************************************)
(* The daemon: every connection's task takes its next step.                *)
(***************************************************************************)
Next ==
    \E c \in Conns :
        \/ \E input \in CreateInputs : BottleCreate(c, input)
        \/ BottleList(c)
        \/ ListNext(c)
        \/ ListRead(c)
        \/ CreateDir(c)
        \/ CreatePrefix(c)
        \/ WriteOpen(c)
        \/ WriteAll(c)
        \/ \E id \in Targets : BottleDelete(c, id)
        \/ RemoveEntries(c)
        \/ RemoveDir(c)
        \/ \E id \in Targets : BottleRun(c, id)
        \/ \E id \in Targets, recipe_id \in IdsAt[recipe_dir] \cup {"nope"} :
              RecipeApply(c, id, recipe_id)
        \/ StepRun(c)
        \/ StepWaitForExit(c)
        \/ StepWineCfg(c)
        \/ StepEnv(c)
        \/ StepCopy(c)
        \/ CopyMkdir(c)
        \/ CopyFile(c)
        \/ UpdateRecord(c)
        \/ Reply(c)

Spec == Init /\ [][Next]_vars

(***************************************************************************)
(* select_runtime on its own: the daemon starts with any of the runtime    *)
(* lists, and bottle.create requests with any parameters arrive.           *)
(***************************************************************************)
SelectInit == \E h \in SelectHosts : Boot(h, RecipeRoot)

SelectNext == \E c \in Conns, input \in SelectInputs : BottleCreate(c, input)

SelectSpec == SelectInit /\ [][SelectNext]_vars

(***************************************************************************)
(* discover_runtimes on its own: the daemon is started on any of the       *)
(* hosts.                                                                  *)
(***************************************************************************)
DiscoverInit == \E h \in DiscoverHosts : Down(h, RecipeRoot)

DiscoverNext == New

DiscoverSpec == DiscoverInit /\ [][DiscoverNext]_vars

(***************************************************************************)
(* The runtime list while the runtime root changes: the daemon is started  *)
(* with one runtime or with none, runtime directories come and go, and     *)
(* runtime.list, service.info and bottle.create requests arrive.           *)
(***************************************************************************)
RegistryInputs ==
    {BottleCreateParams(MyGame, wine_version, None, NoPath, None) :
        wine_version \in {"7.0", "9.0"}}

RegistryInit ==
    \E h \in {StockHost, Host(TRUE, <<>>, NoPath, {})} : Boot(h, RecipeRoot)

RegistryNext ==
    \/ \E entry \in InstallPool : Install(entry)
    \/ \E i \in 1..MaxEntries : Uninstall(i)
    \/ \E c \in Conns :
          \/ RuntimeList(c)
          \/ ServiceInfo(c)
          \/ \E input \in RegistryInputs : BottleCreate(c, input)
          \/ Reply(c)

RegistrySpec == RegistryInit /\ [][RegistryNext]_vars

(***************************************************************************)
(* The bottles while the runtime root changes: the daemon of Spec, and a   *)
(* runtime directory, wine-x86_64-9.0, that is installed and removed, as   *)
(* is the one the daemon found when it started.                            *)
(***************************************************************************)
FrozenNext ==
    \/ Next
    \/ Install(Entry90)
    \/ Uninstall(1)

FrozenSpec == Init /\ [][FrozenNext]_vars

(***************************************************************************)
(* Recipe loading on its own: the daemon is started with any of the recipe *)
(* directories, and recipe.apply requests for the recipes of the directory *)
(* arrive.                                                                 *)
(***************************************************************************)
LoadInit == \E dir \in RecipeDirs : Boot(StockHost, dir)

LoadNext ==
    \E c \in Conns :
        \/ \E recipe_id \in IdsAt[recipe_dir] \cup {"nope"} :
              RecipeApply(c, BogusId, recipe_id)
        \/ Reply(c)

LoadSpec == LoadInit /\ [][LoadNext]_vars

(***************************************************************************)
(* Launches: the daemon of a host whose runtime has no winecfg, started on *)
(* the recipe directory LabRoot, whose recipe overrides WINEPREFIX.        *)
(***************************************************************************)
LaunchSpec == Boot(BareHost, LabRoot) /\ [][Next]_vars

(***************************************************************************)
(* The daemon of Spec with clients that also send params that do not       *)
(* decode.                                                                 *)
(***************************************************************************)
ShapeNext ==
    \/ Next
    \/ \E c \in Conns, method \in ParamMethods :
          \E params \in BadPayloads(method) : BadParams(c, method, params)

ShapeSpec == Init /\ [][ShapeNext]_vars

(***************************************************************************)
(* Clients that go away: bottles are created, run, and given the recipe    *)
(* game (a Run step, then wait, winecfg and env steps), and any client may *)
(* close its connection at any moment.  Each connection is a spawned tokio *)
(* task: the runtime polls it whenever the call it awaits has completed,   *)
(* every filesystem call returns, and a launched process is taken to exit, *)
(* so a handler that can take a step does take it in the end.              *)
(***************************************************************************)
\* a step of the handler of connection c after the request was accepted
Work(c) ==
    \/ CreateDir(c)
    \/ CreatePrefix(c)
    \/ WriteOpen(c)
    \/ WriteAll(c)
    \/ StepRun(c)
    \/ StepWaitForExit(c)
    \/ StepWineCfg(c)
    \/ StepEnv(c)
    \/ UpdateRecord(c)

HangupNext ==
    \E c \in Conns :
        \/ BottleCreate(c, BottleCreateParams(MyGame, "7.0", None, NoPath, None))
        \/ \E id \in Targets : BottleRun(c, id)
        \/ \E id \in Targets : RecipeApply(c, id, "game")
        \/ Work(c)
        \/ Disconnect(c)
        \/ Reply(c)

HangupSpec ==
    Init /\ [][HangupNext]_vars /\ \A c \in Conns : WF_vars(Work(c))

(***************************************************************************)
(* Copy steps: the daemon started on the recipe directory DepotRoot;       *)
(* bottles are created and deleted and the recipes of the directory are    *)
(* applied.                                                                *)
(***************************************************************************)
CopyNext ==
    \E c \in Conns :
        \/ BottleCreate(c, BottleCreateParams(MyGame, "7.0", None, NoPath, None))
        \/ CreateDir(c)
        \/ CreatePrefix(c)
        \/ WriteOpen(c)
        \/ WriteAll(c)
        \/ \E id \in Targets : BottleDelete(c, id)
        \/ RemoveEntries(c)
        \/ RemoveDir(c)
        \/ \E id \in Targets, recipe_id \in IdsAt[recipe_dir] :
              RecipeApply(c, id, recipe_id)
        \/ StepCopy(c)
        \/ CopyMkdir(c)
        \/ CopyFile(c)
        \/ UpdateRecord(c)
        \/ Reply(c)

CopySpec == Boot(StockHost, DepotRoot) /\ [][CopyNext]_vars

(***************************************************************************)
(* Recipes that cannot be resolved: the daemon started on a recipe         *)
(* directory that does not exist, on one with a manifest that does not     *)
(* load, or on one with a single recipe without steps; bottles are created *)
(* and recipes applied to them.                                            *)
(***************************************************************************)
ResolveDirs == {GoneRoot, MixedRoot, TryRoot(0, 0)}

ResolveInit == \E dir \in ResolveDirs : Boot(StockHost, dir)

ResolveNext ==
    \E c \in Conns :
        \/ BottleCreate(c, BottleCreateParams(MyGame, "7.0", None, NoPath, None))
        \/ CreateDir(c)
        \/ CreatePrefix(c)
        \/ WriteOpen(c)
        \/ WriteAll(c)
        \/ \E id \in Targets, recipe_id \in IdsAt[recipe_dir] \cup {"nope"} :
              RecipeApply(c, id, recipe_id)
        \/ UpdateRecord(c)
        \/ Reply(c)

ResolveSpec == ResolveInit /\ [][ResolveNext]_vars

(***************************************************************************)
(* The daemon of Spec with clients that also send lines that are no        *)
(* request of a known method.                                              *)
(***************************************************************************)
WireNext ==
    \/ Next
    \/ \E c \in Conns :
          \/ BlankLine(c)
          \/ BadBytes(c)
          \/ \E kind \in {"text", "json"} : InvalidJson(c, kind)
          \/ UnknownMethod(c)

WireSpec == Init /\ [][WireNext]_vars

(***************************************************************************)
(* BottleName on its own: names are parsed, and the slugs parsed again.    *)
(***************************************************************************)
Parser == "c1"

NameNext ==
    \/ \E value \in NameInputs : ParseName(Parser, value)
    \/ Reparse(Parser)
    \/ Reply(Parser)

NameSpec == Init /\ [][NameNext]_vars

(***************************************************************************)
(* Properties.                                                             *)
(***************************************************************************)
\* connection c takes a step
Moved(c) == pc'[c] # pc[c] \/ idx'[c] # idx[c]

IsApply(c) == req[c].method = "recipe.apply"

\* the labels of apply_recipe inside the step loop
StepLabels == {"step", "copy_mkdir", "copy_file"}

\* the labels of update_record and write_record
UpdateLabels == {"update", "open", "write"}

\* a step of the loop returns an error
StepFails(c) == IsApply(c) /\ pc[c] \in StepLabels /\ pc'[c] = "done"

Range(seq) == {seq[i] : i \in DOMAIN seq}
Count(env, key) == Cardinality({i \in DOMAIN env : env[i][1] = key})
Without(env, keys) == SelectSeq(env, LAMBDA p : p[1] \notin keys)
StepKeys(variables) == {variables[i][1] : i \in DOMAIN variables}

\* the environment after all Env and WineCfg steps of a manifest, in order
RECURSIVE Transform(_, _)
Transform(env, steps) ==
    IF steps = <<>> THEN env
    ELSE Transform(
           CASE steps[1].type = "env" -> EnvStep(env, steps[1].variables)
             [] steps[1].type = "wine_cfg" -> WineCfgStep(env, steps[1].version)
             [] OTHER -> env,
           Tail(steps))

\* the record a successful run of apply hands to update_record
Expected(c) ==
    [hist[c].rec0 EXCEPT !.environment = Transform(@, Steps(c))]

\* C1: when a step of recipe apply fails, apply returns the failure at once
\* (the step index does not move on), update_record has not been called in
\* that run, and no step of the loop, failing or not, changes any bottle's
\* metadata: the persisted record is what it was, however many Env and
\* WineCfg steps had succeeded.
C1_FailedApplyPersistsNothing ==
    [][\A c \in Conns :
          (IsApply(c) /\ pc[c] \in StepLabels /\ Moved(c)) =>
              /\ meta' = meta
              /\ hist'[c].nupd = 0
              /\ pc'[c] = "done" =>
                    /\ resp'[c].kind = "error"
                    /\ resp'[c].at = "step"
                    /\ idx'[c] = idx[c]]_vars

\* a run of apply has failed at its last step after an Env step had changed
\* the in-memory environment, and the persisted record is the loaded one
C1_Witness ==
    \E c \in Conns :
        /\ IsApply(c) /\ pc[c] = "done"
        /\ resp[c].kind = "error" /\ resp[c].at = "step"
        /\ idx[c] = 3
        /\ rec[c].environment # hist[c].rec0.environment
        /\ meta[req[c].id] = Json(hist[c].rec0)

\* C2: a run of apply calls update_record at most once, and only when the
\* step loop has run through all steps; the record it hands over is the
\* loaded record with the environment transformed by all Env and WineCfg
\* steps in manifest order; the run changes metadata nowhere but in
\* write_record, and when its write reaches the file it has opened, that
\* record is what bottle.json holds as apply returns success.
C2_Inv ==
    \A c \in Conns :
        IsApply(c) =>
            /\ hist[c].nupd <= 1
            /\ (pc[c] \in UpdateLabels \/ hist[c].nupd = 1) =>
                  /\ idx[c] = Len(Steps(c)) + 1
                  /\ rec[c] = Expected(c)
            /\ (pc[c] = "done" /\ resp[c].kind = "result") => hist[c].nupd = 1

C2_Act ==
    \A c \in Conns :
        (IsApply(c) /\ Moved(c)) =>
            /\ meta' # meta => pc[c] \in {"open", "write"}
            /\ (pc[c] = "write" /\ resp'[c].kind = "result" /\ fd[c] = "open"
                   /\ meta[req[c].id] = EmptyFile) =>
                  ReadRecord(meta', req[c].id) = Ok(Expected(c))

C3_SideEffectsStay ==
    [][\A c \in Conns :
          StepFails(c) =>
              files' = files /\ dirs' = dirs /\ prefixes' = prefixes /\ meta' = meta]_vars

\* apply has failed at a later step; the file the first step copied is in
\* the prefix, the override of the second step is not in the record
C3_Witness ==
    \E c \in Conns :
        /\ IsApply(c) /\ pc[c] = "done" /\ resp[c].at = "step"
        /\ req[c].recipe_id = "install" /\ idx[c] = 3
        /\ bottle_prefix(req[c].id) \o <<"drive_c", "lib.dll">> \in files
        /\ <<"B", "2">> \in Range(rec[c].environment)
        /\ record(req[c].id).ok
        /\ <<"B", "2">> \notin Range(record(req[c].id).rec.environment)

\* C4: an Env step leaves, for each of its keys, exactly one entry, with
\* the step's value, and leaves the entries of all other keys in their
\* order; so a second Env step for a key replaces the entry of the first.
C4_EnvOverwrites ==
    [][\A c \in Conns :
          (IsApply(c) /\ pc[c] = "step" /\ Step(c).type = "env" /\ Moved(c)) =>
              LET before == rec[c].environment
                  after == rec'[c].environment
                  variables == Step(c).variables
              IN  /\ \A i \in DOMAIN variables :
                        /\ Count(after, variables[i][1]) = 1
                        /\ variables[i] \in Range(after)
                  /\ Without(after, StepKeys(variables))
                        = Without(before, StepKeys(variables))]_vars

\* Env A=1 and later Env A=2 have run: one entry for A, the later value,
\* behind the entries of B and WINE_DEFAULT_VERSION in their old order
C4_Witness ==
    \E c \in Conns :
        /\ IsApply(c) /\ req[c].recipe_id = "tune" /\ idx[c] = 4
        /\ rec[c].environment =
              <<<<"B", "1">>, <<WineDefaultVersion, "1">>, <<"A", "2">>>>

\* C5: no persisted record holds two entries for one key.
C5_OneEntryPerKey ==
    \A id \in AllIds :
        meta[id].kind = "json" =>
            \A key \in Keys : Count(meta[id].rec.environment, key) <= 1

\* C6: a Run step whose process was started, whatever its exit status,
\* does not end the run: the loop goes on with the next step (or with
\* update_record after the last), the in-memory record untouched.
C6_NonZeroRunContinues ==
    [][\A c \in Conns :
          (IsApply(c) /\ pc[c] = "step" /\ Step(c).type = "run" /\ Moved(c)
             /\ hist'[c].status # "spawn_error") =>
              /\ pc'[c] = NextLabel(c)
              /\ idx'[c] = idx[c] + 1
              /\ rec'[c] = rec[c]]_vars

\* the process of a Run step exited non-zero, the later steps succeeded,
\* apply has returned success and the accumulated environment is persisted
C6_Witness ==
    \E c \in Conns :
        /\ IsApply(c) /\ pc[c] = "done" /\ resp[c].kind = "result"
        /\ hist[c].nonzero
        /\ record(req[c].id) = Ok(rec[c])
        /\ rec[c].environment # hist[c].rec0.environment

\* C7: bottle.run whose process exited non-zero (or died of a signal)
\* answers with a result that carries the exit code and success = false,
\* never with an error.
C7_RunReportsExit ==
    \A c \in Conns :
        (req[c].method = "bottle.run" /\ pc[c] = "done"
           /\ hist[c].status \in {"exit_1", "signal"}) =>
            /\ resp[c].kind = "result"
            /\ resp[c].exit_status = code(hist[c].status)
            /\ resp[c].success = FALSE

\* bottle.run has answered for a process that exited with code 1
C7_Witness ==
    \E c \in Conns :
        /\ req[c].method = "bottle.run" /\ pc[c] = "done"
        /\ hist[c].status = "exit_1"
        /\ resp[c].kind = "result" /\ resp[c].exit_status = "1"
        /\ ~resp[c].success

\* C8: as create returns a record, record(id) of the returned id returns
\* the same record; its id is the one allocated, its name and runtime are
\* the requested ones, its environment is empty, and the prefix directory
\* exists.
C8_CreateThenRecord ==
    [][\A c \in Conns :
          (req[c].method = "bottle.create" /\ pc[c] = "write"
             /\ pc'[c] = "done" /\ resp'[c].kind = "result") =>
              LET r == resp'[c].bottle
              IN  /\ ReadRecord(meta', r.id) = Ok(r)
                  /\ r.id = req[c].id /\ r.id \in Ids
                  /\ r.name = req[c].name
                  /\ r.wine_runtime = req[c].runtime
                  /\ r.environment = <<>>
                  /\ r.id \in prefixes' /\ r.id \in dirs']_vars

\* create has returned a record and record(id) returns it
C8_Witness ==
    \E c \in Conns :
        /\ req[c].method = "bottle.create" /\ pc[c] = "done"
        /\ resp[c].kind = "result"
        /\ record(resp[c].bottle.id) = Ok(resp[c].bottle)
        /\ resp[c].bottle.wine_runtime = RootWine
        /\ resp[c].bottle.id \in prefixes

\* C9: once remove(id) has returned success, record(id) fails (with
\* NotFound or otherwise) for the rest of the run.
C9_RemovedStaysRemoved ==
    \A id \in removed : ~record(id).ok

\* C10: a run of update_record that found no bottle.json when it was
\* called does not end with record(id) succeeding.
C10_UpdateNeverCreates ==
    [][\A c \in Conns :
          (IsApply(c) /\ pc[c] = "write" /\ Moved(c) /\ ~hist[c].had) =>
              ~ReadRecord(meta', req[c].id).ok]_vars

\* C11: the id a create is given is not the id of any bottle that exists
\* or has existed: it was handed out by no earlier create, no directory, no
\* prefix, no metadata file and no copied file of that id is on disk, no
\* create has returned it, no remove has removed it, and no other
\* connection's request names it.
C11_CreateNeverReuses ==
    [][\A c \in Conns :
          (pc[c] = "idle" /\ req'[c].method = "bottle.create"
             /\ pc'[c] = "create_dir") =>
              LET id == req'[c].id
              IN  /\ id \in Ids /\ id >= nextId
                  /\ id \notin dirs /\ id \notin prefixes
                  /\ meta[id] = NoFile
                  /\ \A f \in files : ~IsPrefixOf(BottleDir(id), f)
                  /\ id \notin known /\ id \notin removed
                  /\ \A d \in Conns \ {c} : req[d].id # id]_vars

\* a create has been given its id after the first bottle was created and
\* removed: the id is not the first one
C11_Witness ==
    \E c \in Conns :
        /\ req[c].method = "bottle.create" /\ pc[c] = "create_dir"
        /\ removed = {1}
        /\ req[c].id = 2

\* C12: every id whose metadata file exists has its record directory and
\* in it the prefix directory.
C12_MetaWithPrefix ==
    \A id \in AllIds :
        meta[id].kind # "none" => (id \in dirs /\ id \in prefixes)

\* C13: a create that has failed has left no record directory of its id,
\* and a remove that has failed (for another reason than NotFound) has left
\* the directory with its metadata file and its prefix.
C13_AllOrNothing ==
    \A c \in Conns :
        (pc[c] = "done" /\ resp[c].kind = "error") =>
            /\ req[c].method = "bottle.create" => req[c].id \notin dirs
            /\ (req[c].method = "bottle.delete" /\ resp[c].err # "NotFound") =>
                  /\ req[c].id \in dirs
                  /\ req[c].id \in prefixes
                  /\ meta[req[c].id].kind # "none"

\* C14: bottle.list never answers with an error.
C14_ListNeverFails ==
    \A c \in Conns :
        (req[c].method = "bottle.list" /\ pc[c] = "done") =>
            resp[c].kind = "result"

\* C15: when every request answered so far was a successful create, delete
\* or list, and no other request is in flight while list runs, list
\* returns exactly one entry for each bottle created and not deleted.
C15_ListShowsLiveBottles ==
    [][\A c \in Conns :
          (req[c].method = "bottle.list" /\ pc[c] = "list_next"
             /\ pc'[c] = "done" /\ clean /\ hist[c].quiet
             /\ ops = hist[c].ops0
             /\ \A d \in Conns \ {c} : pc[d] = "idle") =>
              LET bottles == resp'[c].bottles
              IN  /\ resp'[c].kind = "result"
                  /\ {bottles[i].id : i \in DOMAIN bottles} = known \ removed
                  /\ Len(bottles) = Cardinality(known \ removed)]_vars

\* a bottle was created and deleted, nothing else has happened, and list
\* has returned the empty list
C15_Witness ==
    \E c \in Conns :
        /\ req[c].method = "bottle.list" /\ pc[c] = "done"
        /\ clean /\ hist[c].quiet /\ ops = hist[c].ops0
        /\ known = {1} /\ removed = {1}
        /\ resp[c].kind = "result" /\ resp[c].bottles = <<>>

\* C16: the record a create returns, and the record it has persisted,
\* carry the slug of the requested name.
C16_NameStoredAsSlug ==
    \A c \in Conns :
        (req[c].method = "bottle.create" /\ pc[c] = "done"
           /\ resp[c].kind = "result") =>
            /\ Some(resp[c].bottle.name) = sanitize(req[c].params.name)
            /\ record(req[c].id).ok =>
                  Some(record(req[c].id).rec.name) = sanitize(req[c].params.name)

C18_LastWriterOnly ==
    \A c \in Conns, d \in Conns :
        (c # d /\ IsApply(c) /\ IsApply(d) /\ req[c].id = req[d].id
           /\ pc[c] = "done" /\ pc[d] = "done"
           /\ resp[c].kind = "result" /\ resp[d].kind = "result"
           /\ hist[c].rec0 = hist[d].rec0
           /\ record(req[c].id).ok) =>
            record(req[c].id).rec \in {Expected(c), Expected(d)}

\* the applies of tune and of game on one bottle have both loaded the
\* created record and both returned success; the record holds what game
\* wrote, and nothing of what tune set
C18_Witness ==
    \E c \in Conns, d \in Conns :
        /\ c # d /\ IsApply(c) /\ IsApply(d) /\ req[c].id = req[d].id
        /\ req[c].recipe_id = "tune" /\ req[d].recipe_id = "game"
        /\ pc[c] = "done" /\ pc[d] = "done"
        /\ resp[c].kind = "result" /\ resp[d].kind = "result"
        /\ hist[c].rec0 = hist[d].rec0
        /\ hist[c].rec0.environment = <<>>
        /\ record(req[c].id) = Ok(Expected(d))
        /\ Expected(c).environment # <<>>
        /\ <<"A", "2">> \notin Range(record(req[c].id).rec.environment)

\* the positions in State::runtimes of the descriptors of a channel, and
\* of those among them with a version
OfChannel(channel) == {i \in DOMAIN runtimes : runtimes[i].channel = channel}
OfVersion(channel, version) ==
    {i \in OfChannel(channel) : runtimes[i].version = version}
Min(S) == CHOOSE i \in S : \A j \in S : i <= j

\* the channel select resolves for a request
Resolved(input) == IF input.channel.some THEN input.channel.val ELSE "rossetta"

\* runtime is descriptor, but for the label the caller may have given
FromDescriptor(runtime, descriptor, input) ==
    /\ runtime.wine64_path = descriptor.wine64_path
    /\ runtime.version = descriptor.version
    /\ runtime.channel = descriptor.channel
    /\ runtime.label = IF input.wine_label.some THEN input.wine_label.val
                       ELSE descriptor.label

\* C19: without an override path, the runtime of a create is the first
\* descriptor of the list that matches the resolved channel and the
\* requested version if there is one, else the first descriptor that
\* matches the resolved channel if there is one.
C19_SelectPriority ==
    \A c \in Conns :
        (req[c].method = "bottle.create" /\ ~req[c].params.wine_path.some) =>
            LET input == req[c].params
                exact == OfVersion(Resolved(input), input.wine_version)
                same == OfChannel(Resolved(input))
            IN  /\ exact # {} =>
                      FromDescriptor(req[c].runtime, runtimes[Min(exact)], input)
                /\ (exact = {} /\ same # {}) =>
                      FromDescriptor(req[c].runtime, runtimes[Min(same)], input)

\* the list holds rossetta 7.0 before rossetta 9.0: the request for 9.0
\* has got 9.0, not the first descriptor of the channel, and the request
\* for a version that is not there has got 7.0
C19_Witness ==
    /\ runtimes = <<Rossetta7, Rossetta9>>
    /\ \E c \in Conns, d \in Conns :
        /\ req[c].method = "bottle.create" /\ req[d].method = "bottle.create"
        /\ ~req[c].params.wine_path.some /\ ~req[d].params.wine_path.some
        /\ ~req[c].params.channel.some /\ ~req[d].params.channel.some
        /\ req[c].params.wine_version = "9.0"
        /\ req[c].runtime = into_wine_runtime(Rossetta9)
        /\ req[d].params.wine_version = "experimental"
        /\ req[d].params.wine_label = None
        /\ req[d].runtime = into_wine_runtime(Rossetta7)

\* C20: select returns a runtime for every request; when no descriptor
\* matches the resolved channel (and no path is given), the runtime has
\* the requested version, the resolved channel and an executable path
\* below the runtime root.
C20_SelectNeverFails ==
    \A c \in Conns :
        req[c].method = "bottle.create" =>
            /\ ~(pc[c] = "done" /\ resp[c].kind = "error")
            /\ req[c].id \in Ids
            /\ (~req[c].params.wine_path.some
                  /\ OfChannel(Resolved(req[c].params)) = {}) =>
                  /\ req[c].runtime.version = req[c].params.wine_version
                  /\ req[c].runtime.channel = Resolved(req[c].params)
                  /\ IsPrefixOf(RuntimeDir, req[c].runtime.wine64_path)
                  /\ req[c].runtime.wine64_path # RuntimeDir

\* no runtime at all was discovered, and the request for channel
\* custom-ppc, version 9.0, has got the synthesized runtime
C20_Witness ==
    /\ runtimes = <<>>
    /\ \E c \in Conns :
        /\ req[c].method = "bottle.create"
        /\ req[c].params.channel = Some("custom-ppc")
        /\ req[c].params.wine_version = "9.0"
        /\ req[c].runtime.channel = "custom-ppc"
        /\ req[c].runtime.version = "9.0"
        /\ req[c].runtime.wine64_path = <<"rt", "wine-x86_64-9.0", "bin", "wine64">>

\* C21: a create with an override path gets a runtime whose executable is
\* that path and whose version is the requested one, whatever the runtime
\* list holds; the label is the caller's, or "custom wine <version>", and
\* the channel is the caller's, or "custom".
C21_OverridePath ==
    \A c \in Conns :
        (req[c].method = "bottle.create" /\ req[c].params.wine_path.some) =>
            LET input == req[c].params
                runtime == req[c].runtime
            IN  /\ runtime.wine64_path = input.wine_path.val
                /\ runtime.version = input.wine_version
                /\ runtime.label = IF input.wine_label.some
                                   THEN input.wine_label.val
                                   ELSE "custom wine " \o input.wine_version
                /\ runtime.channel = IF input.channel.some
                                     THEN input.channel.val ELSE "custom"

\* the list holds a native-arm64 runtime of version 8.0: the request for
\* that channel and version with a path has got the path and the default
\* label, and a request with a path, a label and no channel has got the
\* label and the channel custom
C21_Witness ==
    /\ \E i \in DOMAIN runtimes : runtimes[i] = Arm64
    /\ \E c \in Conns, d \in Conns :
        /\ req[c].method = "bottle.create" /\ req[d].method = "bottle.create"
        /\ req[c].params.wine_path = Some(<<"opt", "wine64">>)
        /\ req[c].params.channel = Some("native-arm64")
        /\ req[c].params.wine_version = "8.0"
        /\ req[c].params.wine_label = None
        /\ req[c].runtime.wine64_path = <<"opt", "wine64">>
        /\ req[c].runtime.label = "custom wine 8.0"
        /\ req[d].params.wine_path = Some(<<"opt", "wine64">>)
        /\ req[d].params.channel = None
        /\ req[d].params.wine_label = Some("mine")
        /\ req[d].runtime.label = "mine"
        /\ req[d].runtime.channel = "custom"

\* the positions of the dashes of a name
Dashes(name) == {i \in DOMAIN name : name[i] = "-"}

\* is the name wine-<arch>-<version...>
IsRuntimeName(name) ==
    /\ Cardinality(Dashes(name)) >= 2
    /\ 5 \in Dashes(name)
    /\ SubSeq(name, 1, 4) = Wine

\* the architecture and the version of such a name
SecondDash(name) == Min(Dashes(name) \ {5})
ArchOf(name) == SubSeq(name, 6, SecondDash(name) - 1)
VersionOf(name) == SubSeq(name, SecondDash(name) + 1, Len(name))

\* the descriptor of a runtime directory
DescriptorOf(entry) ==
    [channel |-> IF ArchOf(entry.name) = X86_64 THEN "rossetta"
                 ELSE IF ArchOf(entry.name) = Arm64Arch THEN "native-arm64"
                 ELSE "custom-" \o Str(ArchOf(entry.name)),
     label |-> "wine " \o Str(ArchOf(entry.name)) \o " "
                  \o Str(VersionOf(entry.name)),
     version |-> Str(VersionOf(entry.name)),
     wine64_path |-> Bin(entry.name, "wine64")]

\* the entries of the host's runtime root that are runtime directories
\* with a bin/wine64
RuntimeEntries ==
    {i \in DOMAIN host.entries :
        /\ host.entries[i].is_dir /\ host.entries[i].utf8
        /\ IsRuntimeName(host.entries[i].name)
        /\ "wine64" \in host.entries[i].bin}

\* what discover_runtimes returned: State::runtimes without the external
\* runtime
DiscoveredList ==
    SubSeq(runtimes, 1,
           Len(runtimes) - (IF host.arm64.some /\ host.arm64.val \in host.files
                            THEN 1 ELSE 0))

\* C22: the list discover_runtimes returns holds exactly one descriptor for
\* each directory of the root that is named wine-<arch>-<version...> and
\* holds bin/wine64, and nothing else; the descriptor has the channel of
\* the architecture, the rest of the name as version, and the path of
\* bin/wine64; for a root that does not exist the list is empty.
C22_DiscoverExact ==
    host.up =>
        /\ Len(DiscoveredList) = Cardinality(RuntimeEntries)
        /\ \A i \in RuntimeEntries :
              Cardinality({k \in DOMAIN DiscoveredList :
                              DiscoveredList[k] = DescriptorOf(host.entries[i])}) = 1
        /\ ~host.exists => DiscoveredList = <<>>

\* of three entries one has no bin/wine64: the two others are listed, one
\* with the version 9.0-rc1, one with the channel custom-ppc
C22_Witness ==
    /\ host.up /\ Len(host.entries) = 3 /\ Len(DiscoveredList) = 2
    /\ \E i \in DOMAIN host.entries : "wine64" \notin host.entries[i].bin
    /\ \E k \in DOMAIN DiscoveredList :
          /\ DiscoveredList[k].version = "9.0-rc1"
          /\ DiscoveredList[k].channel = "rossetta"
          /\ DiscoveredList[k].label = "wine x86_64 9.0-rc1"
    /\ \E k \in DOMAIN DiscoveredList :
          /\ DiscoveredList[k].channel = "custom-ppc"
          /\ DiscoveredList[k].wine64_path = <<"rt", "wine-ppc-1", "bin", "wine64">>

\* the runtime lists the daemon would have built had the directory
\* yielded its entries in another order
Reordered ==
    {new([host EXCEPT !.entries = [i \in DOMAIN host.entries |-> host.entries[p[i]]]]) :
        p \in Permutations(DOMAIN host.entries)}

\* C23: in whatever order the directory yields its entries, the list the
\* daemon builds is the same.
C23_SameList ==
    host.up => \A other \in Reordered : other = runtimes


\* every answer of runtime.list and service.info shows State::runtimes,
\* and the runtime of a create that found a descriptor of its channel is
\* one of State::runtimes
C24_Inv ==
    \A c \in Conns :
        /\ (req[c].method \in {"runtime.list", "service.info"} /\ pc[c] = "done") =>
              (resp[c].kind = "result" /\ resp[c].runtimes = runtimes)
        /\ (req[c].method = "bottle.create"
               /\ OfChannel(Resolved(req[c].params)) # {}) =>
              \E i \in DOMAIN runtimes :
                  req[c].runtime = into_wine_runtime(runtimes[i])
        /\ (req[c].method = "bottle.create"
               /\ OfChannel(Resolved(req[c].params)) = {}) =>
              req[c].runtime.label = "wine " \o req[c].params.wine_version

\* C24: State::runtimes never changes after construction, whatever is
\* installed or removed below the runtime root and whatever requests are
\* handled, and every runtime.list, service.info and select works on it.
C24_Snapshot == []C24_Inv /\ [][runtimes' = runtimes]_vars

\* wine-x86_64-9.0 was installed and wine-x86_64-7.0 removed after the
\* start: runtime.list still shows 7.0 alone, and a create for 9.0 has got
\* 7.0
C24_Witness ==
    /\ runtimes = <<Rossetta7>>
    /\ host.entries = <<Entry90>>
    /\ \E c \in Conns, d \in Conns :
          /\ req[c].method = "runtime.list" /\ pc[c] = "done"
          /\ resp[c].runtimes = <<Rossetta7>>
          /\ req[d].method = "bottle.create"
          /\ req[d].params.wine_version = "9.0"
          /\ req[d].runtime = GoodWine

\* C25: the persisted record of a bottle is the record its create returned
\* in everything but the environment: id, name, created_at and the embedded
\* runtime never change, whatever runs, applies and changes of the runtime
\* root come after.
C25_FrozenAtCreation ==
    \A id \in Ids :
        meta[id].kind = "json" =>
            /\ born[id] # NullRecord
            /\ meta[id].rec = [born[id] EXCEPT !.environment = meta[id].rec.environment]

\* an apply has saved a new environment into a bottle's record after the
\* runtime the bottle was created with was removed from the runtime root
C25_Witness ==
    \E c \in Conns :
        /\ IsApply(c)
        /\ resp[c].kind = "result"
        /\ host.entries = <<>>
        /\ meta[req[c].id].kind = "json"
        /\ meta[req[c].id].rec.environment # born[req[c].id].environment
        /\ meta[req[c].id].rec.wine_runtime = born[req[c].id].wine_runtime

\* the steps, as written, of the manifest a recipe.apply request names; no
\* steps when the directory has no such manifest
AsWritten(c) ==
    LET named == SelectSeq(ReadDir(recipe_dir), LAMBDA e : e.id = req[c].recipe_id)
    IN  IF named = <<>> THEN <<>> ELSE named[1].steps

\* a step that is only wait_for_exit: false, or a run mapping with neither
\* command nor file (path)
Unusable(step) ==
    \/ RecipeStepRaw(step) = "Wait" /\ step.wait_for_exit = "false"
    \/ /\ RecipeStepRaw(step) = "RunObject"
       /\ ~step.run.command.some
       /\ ~step.run.file.some

\* the type of the step a variant of RecipeStepRaw becomes
TypeOf(variant) ==
    CASE variant \in {"RunString", "RunObject"} -> "run"
      [] variant = "Wait" -> "wait_for_exit"
      [] variant = "WineCfg" -> "wine_cfg"
      [] variant = "Env" -> "env"
      [] OTHER -> "copy"

\* C26: a manifest with a wait_for_exit: false step, or with a run mapping
\* that has neither command nor file, does not load: recipe.apply answers
\* with the load error; and a manifest that loads has one step for every
\* step written, in order and of the written kind, none left out.
C26_BadStepFailsLoad ==
    \A c \in Conns :
        (req[c].method = "recipe.apply" /\ pc[c] = "done") =>
            LET steps == AsWritten(c) IN
            /\ (\E i \in DOMAIN steps : Unusable(steps[i])) =>
                   /\ resp[c].kind = "error"
                   /\ resp[c].at = "recipe"
                   /\ resp[c].err \in {"WaitMustBeTrue", "MissingCommand", "Yaml"}
            /\ ~(resp[c].kind = "error" /\ resp[c].at = "recipe") =>
                   /\ Len(Steps(c)) = Len(steps)
                   /\ \A i \in DOMAIN steps :
                          /\ ~Unusable(steps[i])
                          /\ Steps(c)[i].type = TypeOf(RecipeStepRaw(steps[i]))

\* a manifest of a good step followed by wait_for_exit: false was asked
\* for and the answer is the normalization error
C26_Witness ==
    \E c \in Conns :
        /\ req[c].method = "recipe.apply"
        /\ pc[c] = "done"
        /\ Len(AsWritten(c)) = 2
        /\ ~Unusable(AsWritten(c)[1])
        /\ AsWritten(c)[2] = Wait(FALSE)
        /\ resp[c].err = "WaitMustBeTrue"

\* the overrides a handler holds when it launches: the environment of the
\* record as loaded, changed by the Env and WineCfg steps up to the launch
Accumulated(c) ==
    IF IsApply(c)
    THEN Transform(hist[c].rec0.environment, SubSeq(Steps(c), 1, hist[c].at))
    ELSE rec[c].environment

\* the value each key of a list of overrides ends up with
LastValues(env) ==
    {env[i] : i \in {i \in DOMAIN env :
                         \A j \in DOMAIN env : j > i => env[j][1] # env[i][1]}}

\* C27: every process launched for a bottle, by a Run step, a WineCfg step
\* or bottle.run, is given WINEPREFIX as the bottle's own prefix and, besides,
\* exactly the overrides accumulated so far; no override changes WINEPREFIX.
C27_LaunchInOwnPrefix ==
    \A c \in Conns :
        hist[c].launched =>
            hist[c].env =
                {<<"WINEPREFIX", display(bottle_prefix(req[c].id))>>}
                \cup {p \in LastValues(Accumulated(c)) : p[1] # "WINEPREFIX"}

\* C28: a WineCfg step of a bottle whose runtime has no winecfg next to its
\* main executable fails, and the apply answers with the error.
C28_WineCfgNeedsTool ==
    [][\A c \in Conns :
          (/\ pc[c] = "step"
           /\ Step(c).type = "wine_cfg"
           /\ Moved(c)
           /\ ~Installed(winecfg_path(rec[c].wine_runtime.wine64_path))) =>
              /\ pc'[c] = "done"
              /\ resp'[c].kind = "error"]_vars

\* every handler at work has decoded its params
C29_Inv ==
    \A c \in Conns :
        (pc[c] \notin {"idle", "done"} /\ req[c].method \in ParamMethods) =>
            decode(req[c].method, req[c].payload)

\* a request whose params do not decode is answered at once with the
\* decode error, and the step changes nothing else
C29_Act ==
    \A c \in Conns :
        (/\ pc[c] = "idle"
         /\ pc'[c] # "idle"
         /\ req'[c].method \in ParamMethods
         /\ ~decode(req'[c].method, req'[c].payload)) =>
            /\ pc'[c] = "done"
            /\ resp'[c].kind = "error"
            /\ resp'[c].at = "decode"
            /\ ~hist'[c].launched
            /\ UNCHANGED <<fsvars, nextId, known, removed, rec, born>>

\* C29: bottle.create, bottle.delete, bottle.run and recipe.apply answer
\* params with a required field absent or mistyped with the parameter error
\* before anything else happens: no bottle is created, removed, run or
\* changed, and no process is launched.
C29_ShapeErrorFirst == []C29_Inv /\ [][C29_Act]_vars

\* a bottle.delete whose id is a string but no uuid was answered with the
\* decode error while a bottle exists
C29_Witness ==
    \E c \in Conns :
        /\ pc[c] = "done"
        /\ req[c].method = "bottle.delete"
        /\ req[c].payload.fields["id"] = "string"
        /\ resp[c].at = "decode"
        /\ \E id \in Ids : meta[id].kind = "json"

\* the handler of c is at work, its client is gone, and it has launched a
\* process
Orphaned(c) ==
    /\ conn[c] = "closed"
    /\ pc[c] \notin {"idle", "done"}
    /\ hist[c].launched

\* an apply whose client is gone returns success from write_record: the
\* file it wrote holds the record as loaded with the environment all steps
\* of the recipe made of it (or, with another writer at work, bytes of both)
C30_Act ==
    \A c \in Conns :
        (/\ conn[c] = "closed"
         /\ IsApply(c)
         /\ pc[c] = "write"
         /\ fd[c] = "open"
         /\ pc'[c] = "done"
         /\ resp'[c].kind = "result") =>
            meta'[req[c].id] \in {Json(Expected(c)), Garbage}

C31_Inv ==
    \A c \in Conns :
        (IsApply(c) /\ pc[c] \in StepLabels \cup UpdateLabels) =>
            /\ idx[c] \in 1..(Len(Steps(c)) + 1)
            /\ (pc[c] \in StepLabels) = (idx[c] <= Len(Steps(c)))
            /\ rec[c] = [hist[c].rec0 EXCEPT !.environment =
                            Transform(@, SubSeq(Steps(c), 1, idx[c] - 1))]

\* a step of an apply leaves the record as loaded alone and moves on by one
\* step at most; a WaitForExit step moves on by one, never fails and changes
\* nothing else
C31_Act ==
    \A c \in Conns :
        (IsApply(c) /\ pc[c] \in StepLabels /\ Moved(c)) =>
            /\ hist'[c].rec0 = hist[c].rec0
            /\ idx'[c] \in {idx[c], idx[c] + 1}
            /\ (pc[c] = "step" /\ Step(c).type = "wait_for_exit") =>
                   /\ idx'[c] = idx[c] + 1
                   /\ pc'[c] # "done"
                   /\ UNCHANGED <<fsvars, rec, hist, nextId, known, removed>>

\* C31: recipe apply loads the record once, before the first step, and runs
\* the steps of the manifest one after the other in manifest order, each on
\* what the steps before it left; a WaitForExit step changes nothing and
\* never fails.
C31_Sequential == []C31_Inv /\ [][C31_Act]_vars

\* an apply of the recipe game is past its Run step, whose process has
\* exited, and its WaitForExit step, and holds the record as it loaded it
C31_Witness ==
    \E c \in Conns :
        /\ IsApply(c)
        /\ pc[c] = "step"
        /\ idx[c] = 3
        /\ Steps(c)[1].type = "run"
        /\ Steps(c)[2].type = "wait_for_exit"
        /\ hist[c].launched
        /\ rec[c] = hist[c].rec0

\* the source of the Copy step connection c is at
Source(c) == resource(recipe_dir, Step(c).path)

\* a Copy step whose source does not exist returns the failure and changes
\* nothing on disk
C32_Missing ==
    \A c \in Conns :
        (/\ IsApply(c)
         /\ pc[c] = "step"
         /\ Step(c).type = "copy"
         /\ Moved(c)
         /\ Source(c) \notin HostFiles) =>
            /\ pc'[c] = "done"
            /\ resp'[c].kind = "error"
            /\ UNCHANGED fsvars

\* create_dir_all returns: the directories the destination lies in exist
C32_Parents ==
    \A c \in Conns :
        (IsApply(c) /\ pc[c] = "copy_mkdir" /\ pc'[c] = "copy_file") =>
            /\ Source(c) \in HostFiles
            /\ IsPrefixOf(bottle_prefix(req[c].id), Parent(Destination(c))) =>
                   (req[c].id \in dirs' /\ req[c].id \in prefixes')

Launches(c) ==
    /\ IsApply(c)
    /\ pc[c] = "step"
    /\ \/ Step(c).type = "run"
       \/ Step(c).type = "wine_cfg" /\ HasParent(rec[c].wine_runtime.wine64_path)

C33_Act ==
    \A c \in Conns :
        /\ (Launches(c) /\ Moved(c) /\ hist'[c].status = "spawn_error") =>
               /\ pc'[c] = "done"
               /\ resp'[c] = RpcError("Launch", "step")
               /\ idx'[c] = idx[c]
               /\ hist'[c].nupd = 0
               /\ UNCHANGED fsvars
        /\ (Launches(c) /\ Moved(c) /\ hist'[c].status \in {"exit_1", "signal"}) =>
               /\ pc'[c] = NextLabel(c)
               /\ idx'[c] = idx[c] + 1
        /\ (IsApply(c) /\ pc[c] = "done" /\ Moved(c)) => pc'[c] = "idle"

C33_Inv ==
    \A c \in Conns :
        (IsApply(c) /\ pc[c] = "done" /\ resp[c].kind = "error"
           /\ resp[c].err = "Launch") =>
            /\ hist[c].status = "spawn_error"
            /\ hist[c].nupd = 0
            /\ idx[c] <= Len(Steps(c))

\* C33: a recipe Run or WineCfg step whose process cannot be launched at
\* all aborts the recipe: apply returns the failure, no later step is
\* executed and apply writes nothing to the bottle's record, while a
\* non-zero exit is only logged and the recipe goes on.
C33_LaunchFailureAborts == []C33_Inv /\ [][C33_Act]_vars

\* a WineCfg step after an Env step could not be launched: apply has
\* failed with steps left, and the record on disk has the environment it
\* had, not the accumulated one
C33_Witness ==
    \E c \in Conns :
        /\ IsApply(c) /\ pc[c] = "done"
        /\ resp[c] = RpcError("Launch", "step")
        /\ Step(c).type = "wine_cfg"
        /\ idx[c] < Len(Steps(c))
        /\ rec[c].environment # hist[c].rec0.environment
        /\ record(req[c].id) = Ok(hist[c].rec0)

\* C34: when the remove of a bottle has returned success, no step of an
\* apply on that bottle brings back its directory or its metadata file, and
\* the apply's update_record fails with NotFound.
C34_DeleteWins ==
    [][\A c \in Conns :
          (IsApply(c) /\ req[c].id \in removed /\ Moved(c)) =>
              /\ req[c].id \in dirs' => req[c].id \in dirs
              /\ meta'[req[c].id].kind # "none" => meta[req[c].id].kind # "none"
              /\ pc[c] = "update" =>
                     (pc'[c] = "done" /\ resp'[c] = RpcError("NotFound", "update"))]_vars

\* connection c's handler is bottle.run or recipe.apply
NeedsRecord(c) == req[c].method \in {"bottle.run", "recipe.apply"}

\* the request that arrives names a bottle id without readable record: the
\* handler returns the failure in the step that read it
C35_Act ==
    \A c \in Conns :
        (/\ pc[c] = "idle"
         /\ pc'[c] # "idle"
         /\ req'[c].method \in {"bottle.run", "recipe.apply"}
         /\ ~record(req'[c].id).ok) =>
            /\ pc'[c] = "done"
            /\ resp'[c].kind = "error"
            /\ resp'[c].at \in {"load", "recipe"}
            /\ resp'[c].at = "load" => resp'[c].err = record(req'[c].id).err
            /\ hist'[c] = NoHist
            /\ rec'[c] = NullRecord
            /\ idx'[c] = 0
            /\ UNCHANGED fsvars

\* a request that failed to load the record launched nothing and was at no
\* step
C35_Inv ==
    \A c \in Conns :
        (NeedsRecord(c) /\ pc[c] = "done" /\ resp[c].kind = "error"
           /\ resp[c].at = "load") =>
            /\ ~hist[c].launched
            /\ hist[c].status = ""
            /\ hist[c].nupd = 0
            /\ idx[c] = 0

\* C35: recipe.apply or bottle.run on a bottle id that has no readable
\* record fails before any step: no process is launched, no file copied,
\* and no directory or metadata file is created for the id.
C35_NoRecordNoEffect == []C35_Inv /\ [][C35_Act]_vars

\* with a bottle on disk, a run and an apply of an id without record have
\* both failed to load it, and nothing of that id is on disk
C35_Witness ==
    \E c1, c2 \in Conns :
        /\ req[c1].method = "bottle.run" /\ req[c2].method = "recipe.apply"
        /\ pc[c1] = "done" /\ pc[c2] = "done"
        /\ resp[c1] = RpcError("NotFound", "load")
        /\ resp[c2] = RpcError("NotFound", "load")
        /\ req[c1].id \notin dirs \cup prefixes
        /\ req[c2].id \notin dirs \cup prefixes
        /\ \E id \in Ids : record(id).ok

\* does the recipe directory exist, does every manifest in it load, and
\* has one of them the id
Resolvable(dir, recipe_id) ==
    LET manifests == SelectSeq(ReadDir(dir), LAMBDA e : e.yaml) IN
    /\ dir # GoneRoot
    /\ \A i \in DOMAIN manifests : \A j \in DOMAIN manifests[i].steps :
           /\ ~Unusable(manifests[i].steps[j])
           /\ RecipeStepRaw(manifests[i].steps[j]) # "invalid"
    /\ \E i \in DOMAIN manifests : manifests[i].id = recipe_id

C36_Act ==
    \A c \in Conns :
        (/\ pc[c] = "idle"
         /\ pc'[c] # "idle"
         /\ req'[c].method = "recipe.apply") =>
            IF Resolvable(recipe_dir, req'[c].recipe_id)
            THEN ~(pc'[c] = "done" /\ resp'[c].at = "recipe")
            ELSE /\ pc'[c] = "done"
                 /\ resp'[c].kind = "error"
                 /\ resp'[c].at = "recipe"
                 /\ rec'[c] = NullRecord
                 /\ hist'[c] = NoHist
                 /\ idx'[c] = 0
                 /\ UNCHANGED fsvars

C36_Inv ==
    \A c \in Conns :
        (IsApply(c) /\ pc[c] = "done" /\ resp[c].kind = "error"
           /\ resp[c].at = "recipe") =>
            /\ rec[c] = NullRecord
            /\ ~hist[c].launched
            /\ hist[c].status = ""
            /\ hist[c].nupd = 0

\* C36: recipe.apply of a recipe that cannot be resolved (an unknown
\* recipe_id, or any manifest of the recipe directory failing to load)
\* fails before the bottle is touched: the record is neither read nor
\* written and no process is launched.
C36_UnresolvedTouchesNothing == []C36_Inv /\ [][C36_Act]_vars

\* the recipe good of a directory whose manifest bad does not load was
\* asked for on a bottle that exists, and on an id without record: both
\* were answered with the recipe error
C36_Witness ==
    \E c1, c2 \in Conns :
        /\ recipe_dir = MixedRoot
        /\ IsApply(c1) /\ IsApply(c2)
        /\ req[c1].recipe_id = "good" /\ req[c2].recipe_id = "good"
        /\ pc[c1] = "done" /\ pc[c2] = "done"
        /\ resp[c1] = RpcError("WaitMustBeTrue", "recipe")
        /\ resp[c2] = RpcError("WaitMustBeTrue", "recipe")
        /\ record(req[c1].id).ok
        /\ ~record(req[c2].id).ok

\* handle_connection has read a line on connection c
LineRead(c) == pc[c] = "idle" /\ req'[c] # req[c] /\ req'[c] # NoReq

\* something of connection c's task changes
Acts(c) == pc'[c] # pc[c] \/ req'[c] # req[c] \/ conn'[c] # conn[c]

\* C37: on one connection the requests are answered in order, one response
\* line for every line that is not blank: a line that is no valid JSON, an
\* unknown method and a failed operation are answered with an error and
\* the connection stays open, and what happens on one connection leaves
\* the other connections as they are.
C37_AnsweredInOrder ==
    [][\A c \in Conns :
          /\ LineRead(c) =>
                 IF req'[c] = Line("blank")
                 THEN pc'[c] = "idle" /\ resp'[c] = NoResp /\ conn'[c] = "open"
                 ELSE pc'[c] # "idle" /\ conn'[c] = "open"
          /\ (LineRead(c) /\ req'[c].method \in {"<bytes>", "<text>", "<json>", "<unknown>"}) =>
                 pc'[c] = "done" /\ resp'[c].kind = "error"
          /\ pc[c] # "idle" =>
                 \/ req'[c] = req[c] /\ pc'[c] # "idle"
                 \/ /\ pc[c] = "done" /\ pc'[c] = "idle"
                    /\ resp[c].kind \in {"result", "error"}
          /\ (pc[c] # "done" /\ pc'[c] = "done") => conn'[c] = conn[c]
          /\ Acts(c) =>
                 \A d \in Conns \ {c} :
                     /\ pc'[d] = pc[d] /\ req'[d] = req[d]
                     /\ resp'[d] = resp[d] /\ conn'[d] = conn[d]]_vars

\* the characters of a slug, and those that may stand at its ends
EndChars == Range(LowerCase) \cup Range(Digits)
SlugChars == EndChars \cup {"-", "_"}

\* what a character of a name becomes: a letter its lowercase, a space a
\* dash, a digit, dash or underscore itself
Becomes(ch) ==
    IF ch = " " THEN "-" ELSE IF Among(UpperCase, ch) THEN to_ascii_lowercase(ch) ELSE ch

\* the characters of a name that are not dropped, as they become, from
\* the first letter or digit to the last
Surviving(value) ==
    LET kept == SelectSeq(value, LAMBDA ch : Becomes(ch) \in SlugChars)
        ends == {i \in DOMAIN kept : Becomes(kept[i]) \in EndChars}
        first == CHOOSE i \in ends : \A j \in ends : i <= j
        last == CHOOSE i \in ends : \A j \in ends : j <= i
    IN  IF ends = {} THEN <<>>
        ELSE [i \in 1..(last - first + 1) |-> Becomes(kept[first + i - 1])]

C38_Inv ==
    \A c \in Conns :
        (req[c].method = "parse" /\ pc[c] = "done") =>
            LET slug == resp[c].bottle.name IN
            IF \E i \in DOMAIN req[c].name : Becomes(req[c].name[i]) \in EndChars
            THEN /\ resp[c].kind = "result"
                 /\ slug # <<>>
                 /\ \A i \in DOMAIN slug : slug[i] \in SlugChars
                 /\ slug[1] \in EndChars
                 /\ slug[Len(slug)] \in EndChars
                 /\ slug = Surviving(req[c].name)
            ELSE resp[c].kind = "error"

C38_Act ==
    \A c \in Conns :
        (req[c].method = "parse" /\ pc[c] = "done" /\ pc'[c] = "done"
           /\ resp[c].kind = "result") =>
            /\ resp'[c] = resp[c]
            /\ req'[c].name = resp[c].bottle.name

\* C38: parsing a BottleName is total: every input gives either a slug
\* that is not empty, is made of lowercase ASCII letters, digits, '-' and
\* '_' only and neither starts nor ends with '-' or '_' (letters
\* lowercased, spaces turned into '-', every other character dropped), or
\* an error when no letter or digit survives; parsing a slug gives the
\* slug.
C38_TotalSanitizer == []C38_Inv /\ [][C38_Act]_vars

\* "My Fancy App" was parsed to my-fancy-app, and the slug parsed again
C38_Witness ==
    /\ req[Parser].method = "parse"
    /\ pc[Parser] = "done"
    /\ req[Parser].name = resp[Parser].bottle.name
    /\ Str(resp[Parser].bottle.name) = "my-fancy-app"

====
